---- MODULE Spec2Model ----
(***************************************************************************)
(* Verification model of convert-jenkinsfile (pkg/grammar/grammar.go,      *)
(* pkg/api/file.go): the Jenkinsfile model, its rendering to a GitHub      *)
(* Actions workflow (Model.ToYaml) and the text pre-processing in front of *)
(* the grammar.                                                            *)
(*                                                                         *)
(* Strings are sequences of glyphs.  A glyph is one character ("a", "$",   *)
(* "\n") or one fixed fragment of text that the code only ever copies or   *)
(* compares as a whole (a word such as "maven", or a literal piece of a    *)
(* format string such as " cannot be translated directly.").  Every Go     *)
(* string function below works glyph by glyph the way the Go function      *)
(* works byte by byte.  A Go pointer field is a sequence of length 0 (nil) *)
(* or 1.                                                                   *)
(***************************************************************************)
EXTENDS Integers, Sequences, FiniteSets, TLC

\* ------------------------------------------------------------------ bounds

\* Largest number of stages in a generated pipeline.
MaxStages == 3
\* How many times ToYaml is called on the same model.
MaxRenders == 2

\* ------------------------------------------------------- Go string helpers


\* strings.HasPrefix
HasPrefix(s, p) == Len(p) <= Len(s) /\ SubSeq(s, 1, Len(p)) = p

\* Index of the first occurrence of sub in s at or after position from
\* (0 if there is none); sub is not empty.
IndexFrom(s, sub, from) ==
  LET hits == {i \in from..(Len(s) - Len(sub) + 1) : SubSeq(s, i, i + Len(sub) - 1) = sub}
  IN IF hits = {} THEN 0 ELSE CHOOSE i \in hits : \A j \in hits : i <= j

\* strings.Contains
Contains(s, sub) == IndexFrom(s, sub, 1) # 0

\* strings.Replace(s, old, new, 1)
ReplaceFirst(s, old, new) ==
  LET i == IndexFrom(s, old, 1)
  IN IF i = 0 THEN s
     ELSE SubSeq(s, 1, i - 1) \o new \o SubSeq(s, i + Len(old), Len(s))

\* strings.ReplaceAll: non-overlapping occurrences, left to right.
RECURSIVE ReplaceAll(_, _, _)
ReplaceAll(s, old, new) ==
  LET i == IndexFrom(s, old, 1)
  IN IF i = 0 THEN s
     ELSE SubSeq(s, 1, i - 1) \o new
          \o ReplaceAll(SubSeq(s, i + Len(old), Len(s)), old, new)

\* strings.Trim(s, cutset): drops every leading and trailing glyph of cutset.
RECURSIVE TrimLeft(_, _)
TrimLeft(s, cutset) ==
  IF s # <<>> /\ Head(s) \in cutset THEN TrimLeft(Tail(s), cutset) ELSE s

RECURSIVE TrimRight(_, _)
TrimRight(s, cutset) ==
  IF s # <<>> /\ s[Len(s)] \in cutset
  THEN TrimRight(SubSeq(s, 1, Len(s) - 1), cutset) ELSE s

Trim(s, cutset) == TrimRight(TrimLeft(s, cutset), cutset)

\* The glyphs strings.TrimSpace removes ("  " is the indent unit).
WhiteSpace == {" ", "\n", "\t", "\r", "  "}

\* strings.TrimSpace
TrimSpace(s) == Trim(s, WhiteSpace)

\* strings.Join(parts, sep)
RECURSIVE Join(_, _)
Join(parts, sep) ==
  IF parts = <<>> THEN <<>>
  ELSE IF Len(parts) = 1 THEN parts[1]
  ELSE parts[1] \o sep \o Join(Tail(parts), sep)

\* strings.Split(s, sep): always at least one part.
RECURSIVE Split(_, _)
Split(s, sep) ==
  LET i == IndexFrom(s, sep, 1)
  IN IF i = 0 THEN <<s>>
     ELSE <<SubSeq(s, 1, i - 1)>> \o Split(SubSeq(s, i + Len(sep), Len(s)), sep)

\* strings.Repeat(unit, count)
RECURSIVE Repeat(_, _)
Repeat(unit, count) == IF count <= 0 THEN <<>> ELSE unit \o Repeat(unit, count - 1)

\* Concatenation of a sequence of sequences (append(x, y...)).
RECURSIVE Flatten(_)
Flatten(ss) == IF ss = <<>> THEN <<>> ELSE Head(ss) \o Flatten(Tail(ss))

\* Decimal digits of a natural number (fmt's %d).
RECURSIVE Digits(_)
Digits(n) ==
  LET d == <<"0", "1", "2", "3", "4", "5", "6", "7", "8", "9">>
  IN IF n < 10 THEN <<d[n + 1]>> ELSE Digits(n \div 10) \o <<d[(n % 10) + 1]>>

\* ------------------------------------------------------------- constants

\* The backquote character, as a glyph (written out: a backquote inside a
\* string literal confuses the parser).
BackTick == "<backquote>"

indent == <<"  ">>
newlinePlaceholder == <<"^^NEWLINE^^">>
backtickPlaceholder == <<"^^BACKTICK^^">>
doubleQuotePlaceholder == <<"^^DOUBLEQUOTE^^">>
singleQuotePlaceholder == <<"^^SINGLEQUOTE^^">>
multilineDoubleQuotePlaceholder == <<"^^MULTILINEDOUBLE^^">>
multilineSingleQuotePlaceholder == <<"^^MULTILINESINGLE^^">>

unsupportedTopLevelFields == {"triggers", "options", "parameters", "tools", "libraries"}
unsupportedStageFields == {"stages", "parallel", "matrix", "tools", "input", "options"}
unsupportedAgentFields == {"kubernetes"}
supportedWhenFields == {"branch"}
supportedSteps == {"sh", "dir"}

unusedEnvVars == {<<"PREVIEW_VERSION">>, <<"APP_NAME">>, <<"DOCKER_REGISTRY">>,
                  <<"DOCKER_REGISTRY_ORG">>}

stepsToRemove ==
  { <<"git checkout master">>,
    <<"checkout scm">>,
    <<"git config --global credential.helper store">>,
    <<"jx step git credentials">>,
    <<"echo ", "\\", "$", "(", "jx-release-version", ")", " > VERSION">>,
    <<"mvn versions:set -DnewVersion=", "\\", "$", "(", "cat", " ", "VERSION", ")">>,
    <<"jx step tag --version ", "\\", "$", "(", "cat", " ", "VERSION", ")">> }

\* ------------------------------------------------------------ the model

\* What the grammar captures for one value token (struct Value).  A captured
\* number or boolean is a pointer: addr is where the parser allocated it.
\* The alternative for false matches the token without capturing it.
CaptureValue(tok, addr) ==
  [String |-> IF tok.type \in {"String", "RawString"} THEN <<tok.value>> ELSE <<>>,
   Number |-> IF tok.type = "Float" THEN <<[addr |-> addr, val |-> tok.value]>> ELSE <<>>,
   Int    |-> IF tok.type = "Int" THEN <<[addr |-> addr, val |-> tok.value]>> ELSE <<>>,
   Bool   |-> IF tok.type = "Ident" /\ tok.value = <<"true">>
              THEN <<[addr |-> addr, val |-> TRUE]>> ELSE <<>>]

\* struct ModelStepArg: an unnamed value, or key ":" value.
UnnamedArg(tok, addr) == [Unnamed |-> <<CaptureValue(tok, addr)>>, Named |-> <<>>]
NamedArg(key, tok, addr) ==
  [Unnamed |-> <<>>, Named |-> <<[Key |-> key, Value |-> <<CaptureValue(tok, addr)>>]>>]

\* struct ModelStep
Step(name, args, nested) == [Name |-> name, Args |-> args, NestedSteps |-> nested]

\* struct ModelEnvironmentEntry with its ModelEnvironmentEntryValue
EnvString(key, value) ==
  [Key |-> key, Value |-> [StringValue |-> <<value>>, Credential |-> <<>>]]
EnvCredential(key, id) ==
  [Key |-> key, Value |-> [StringValue |-> <<>>, Credential |-> <<id>>]]

\* struct UnsupportedModelBlock
Unsupported(name, value) == [Name |-> name, Value |-> value]

\* struct ModelPostEntry
PostEntry(kind, steps) == [Kind |-> kind, Steps |-> steps]

\* struct ModelWhen: branch "name", or one unsupported block.
WhenBranch(branch) == [Branch |-> branch, Unsupported |-> <<>>]
WhenUnsupported(u) == [Branch |-> <<>>, Unsupported |-> <<u>>]

\* struct ModelStageEntry: the grammar fills exactly one field per entry.
NoStageEntry ==
  [Agent |-> <<>>, Environment |-> <<>>, Steps |-> <<>>, Post |-> <<>>,
   When |-> <<>>, Unsupported |-> <<>>]
StageAgent(label)     == [NoStageEntry EXCEPT !.Agent = <<[Label |-> label]>>]
StageEnvironment(env) == [NoStageEntry EXCEPT !.Environment = env]
StageSteps(steps)     == [NoStageEntry EXCEPT !.Steps = steps]
StagePost(post)       == [NoStageEntry EXCEPT !.Post = post]
StageWhen(when)       == [NoStageEntry EXCEPT !.When = <<when>>]
StageUnsupported(u)   == [NoStageEntry EXCEPT !.Unsupported = <<u>>]

\* struct ModelStage
Stage(name, entries) == [Name |-> name, Entries |-> entries]

\* struct ModelPipelineEntry: the grammar fills exactly one field per entry.
NoPipelineEntry ==
  [Agent |-> <<>>, Environment |-> <<>>, Stages |-> <<>>, Post |-> <<>>,
   Unsupported |-> <<>>]
PipelineAgent(label)     == [NoPipelineEntry EXCEPT !.Agent = <<[Label |-> label]>>]
PipelineEnvironment(env) == [NoPipelineEntry EXCEPT !.Environment = env]
PipelineStages(stages)   == [NoPipelineEntry EXCEPT !.Stages = stages]
PipelinePost(post)       == [NoPipelineEntry EXCEPT !.Post = post]
PipelineUnsupported(u)   == [NoPipelineEntry EXCEPT !.Unsupported = <<u>>]

\* struct Model
Model(entries) == [Pipeline |-> entries]

\* The first element of a sequence that satisfies the test, as a pointer.
FirstIndex(seq, Test(_)) ==
  LET hits == {i \in 1..Len(seq) : Test(seq[i])}
  IN IF hits = {} THEN 0 ELSE CHOOSE i \in hits : \A j \in hits : i <= j

\* Model.getPost, getEnvironment, getStages, getUnsupported: the field of the
\* first entry where it is not empty.
ModelGetPost(m) ==
  LET T(e) == Len(e.Post) > 0
      i == FirstIndex(m.Pipeline, T)
  IN IF i = 0 THEN <<>> ELSE m.Pipeline[i].Post

ModelGetEnvironment(m) ==
  LET T(e) == Len(e.Environment) > 0
      i == FirstIndex(m.Pipeline, T)
  IN IF i = 0 THEN <<>> ELSE m.Pipeline[i].Environment

\* Index of the pipeline entry Model.getStages returns the stages of (0: none).
StagesEntry(m) ==
  LET T(e) == Len(e.Stages) > 0
  IN FirstIndex(m.Pipeline, T)

ModelGetStages(m) ==
  IF StagesEntry(m) = 0 THEN <<>> ELSE m.Pipeline[StagesEntry(m)].Stages

ModelGetUnsupported(m) ==
  LET T(e) == Len(e.Unsupported) > 0
      i == FirstIndex(m.Pipeline, T)
  IN IF i = 0 THEN <<>> ELSE m.Pipeline[i].Unsupported

\* ModelStage.getEnvironment, getUnsupported, getSteps, getWhen, getPost
StageGetEnvironment(s) ==
  LET T(e) == Len(e.Environment) > 0
      i == FirstIndex(s.Entries, T)
  IN IF i = 0 THEN <<>> ELSE s.Entries[i].Environment

StageGetUnsupported(s) ==
  LET T(e) == Len(e.Unsupported) > 0
      i == FirstIndex(s.Entries, T)
  IN IF i = 0 THEN <<>> ELSE s.Entries[i].Unsupported

StageGetSteps(s) ==
  LET T(e) == Len(e.Steps) > 0
      i == FirstIndex(s.Entries, T)
  IN IF i = 0 THEN <<>> ELSE s.Entries[i].Steps

StageGetWhen(s) ==
  LET T(e) == Len(e.When) > 0
      i == FirstIndex(s.Entries, T)
  IN IF i = 0 THEN <<>> ELSE s.Entries[i].When

StageGetPost(s) ==
  LET T(e) == Len(e.Post) > 0
      i == FirstIndex(s.Entries, T)
  IN IF i = 0 THEN <<>> ELSE s.Entries[i].Post

\* ------------------------------------------------------------- rendering

\* indentLine
indentLine(line, count) ==
  IF TrimSpace(line) = <<>> THEN line ELSE Repeat(indent, count) \o line

\* containsRealEnvLines
containsRealEnvLines(lines) ==
  \E i \in 1..Len(lines) : ~HasPrefix(lines[i], <<"#">>)

\* Value.ToString.  %d is applied to the pointers Number and Int, not to the
\* numbers they point to, and prints the address.
ValueToString(v) ==
  IF v.String # <<>> THEN <<"\"">> \o v.String[1] \o <<"\"">>
  ELSE IF v.Number # <<>> THEN Digits(v.Number[1].addr)
  ELSE IF v.Int # <<>> THEN Digits(v.Int[1].addr)
  ELSE IF v.Bool # <<>> THEN (IF v.Bool[1].val THEN <<"true">> ELSE <<"false">>)
  ELSE <<"n/a">>

\* ModelStepNamedArg.ToString
NamedArgToString(n) ==
  <<"key: ">> \o n.Key \o <<", val: ">> \o ValueToString(n.Value[1])

\* ModelStepArg.ToString
ArgToString(a) ==
  IF a.Unnamed # <<>> THEN ValueToString(a.Unnamed[1])
  ELSE IF a.Named # <<>> THEN NamedArgToString(a.Named[1])
  ELSE <<"(none)">>

\* ModelEnvironmentEntryValue.ToString
EnvValueToString(v) ==
  IF v.StringValue # <<>> THEN v.StringValue[1]
  ELSE IF v.Credential # <<>> THEN v.Credential[1]
  ELSE <<"n/a">>

\* ModelEnvironmentEntry.ToEnv: the converted variables and isInvalid; the
\* last return dereferences StringValue, which is nil for credentials(...).
ToEnv(e) ==
  IF e.Key \in unusedEnvVars
  THEN [vars |-> <<>>, invalid |-> FALSE, panic |-> FALSE]
  ELSE IF e.Value.StringValue # <<>> /\ Contains(e.Value.StringValue[1], <<"$">>)
  THEN [vars |-> <<>>, invalid |-> TRUE, panic |-> FALSE]
  ELSE IF e.Value.StringValue = <<>>
  THEN [vars |-> <<>>, invalid |-> FALSE, panic |-> TRUE]
  ELSE [vars |-> <<[key |-> e.Key, value |-> e.Value.StringValue[1]]>>,
        invalid |-> FALSE, panic |-> FALSE]

\* yaml.Marshal of a list of one-entry maps, one "- key: value" line each
\* (plain scalars; the empty string is written "").
YamlMarshal(envVars) ==
  [i \in 1..Len(envVars) |->
     <<"-", " ">> \o envVars[i].key \o <<":", " ">>
     \o (IF envVars[i].value = <<>> THEN <<"\"", "\"">> ELSE envVars[i].value)]

\* toEnvYamlLines: the comment lines of the invalid variables, then the
\* marshalled lines of the others.
toEnvYamlLines(modelVars) ==
  LET conv == [i \in 1..Len(modelVars) |-> ToEnv(modelVars[i])]
      invalidVars ==
        Flatten([i \in 1..Len(modelVars) |->
          IF conv[i].invalid
          THEN << <<"#", " The variable '">> \o modelVars[i].Key
                  \o <<"' has the value '">> \o EnvValueToString(modelVars[i].Value)
                  \o <<"', which cannot be converted.">> >>
          ELSE <<>>])
      envVars == Flatten([i \in 1..Len(modelVars) |-> conv[i].vars])
      panics == \E i \in 1..Len(modelVars) : conv[i].panic
  IN [lines |-> IF envVars = <<>> THEN invalidVars
                ELSE invalidVars \o Split(TrimSpace(Join(YamlMarshal(envVars), <<"\n">>)), <<"\n">>),
      panic |-> panics]

\* removeQuotesAndTrim
removeQuotesAndTrim(in) == Trim(in, {"\""})

\* ModelStep.getArg
getArg(m) ==
  IF Len(m.Args) = 1 THEN removeQuotesAndTrim(ArgToString(m.Args[1])) ELSE <<>>

\* imageFromContainerStep
imageFromContainerStep(step) ==
  IF Len(step.Args) = 1 THEN getArg(step)
  ELSE LET T(a) == (a.Named # <<>>) /\ (a.Named[1].Key = <<"name">>)
                       /\ (a.Named[1].Value # <<>>)
           i == FirstIndex(step.Args, T)
       IN IF i = 0 THEN <<"maven">>
          ELSE removeQuotesAndTrim(ValueToString(step.Args[i].Named[1].Value[1]))

\* A flattening in which a nested dir extends the outer one.
RECURSIVE nestedStepsWithJoinedDir(_, _, _)
nestedStepsWithJoinedDir(m, baseDir, baseImage) ==
  IF Len(m.NestedSteps) = 0
  THEN << [step |-> m, dir |-> baseDir, image |-> baseImage] >>
  ELSE LET dir == IF m.Name = <<"dir">>
                  THEN (IF baseDir = <<>> THEN <<>> ELSE baseDir \o <<"/">>)
                       \o Trim(getArg(m), {".", "/"})
                  ELSE baseDir
           image == IF m.Name = <<"container">> THEN imageFromContainerStep(m) ELSE baseImage
       IN Flatten([i \in 1..Len(m.NestedSteps) |->
                     nestedStepsWithJoinedDir(m.NestedSteps[i], dir, image)])

\* ModelStep.nestedStepsWithDirAndImage: the leaves of the step tree, each
\* with the dir and image it inherits.
RECURSIVE nestedStepsWithDirAndImage(_, _, _)
nestedStepsWithDirAndImage(m, baseDir, baseImage) ==
  IF Len(m.NestedSteps) = 0
  THEN << [step |-> m, dir |-> baseDir, image |-> baseImage] >>
  ELSE LET dir == IF m.Name = <<"dir">> THEN Trim(getArg(m), {".", "/"}) ELSE baseDir
           image == IF m.Name # <<"dir">> /\ m.Name = <<"container">>
                    THEN imageFromContainerStep(m) ELSE baseImage
       IN Flatten([i \in 1..Len(m.NestedSteps) |->
                     nestedStepsWithDirAndImage(m.NestedSteps[i], dir, image)])

\* ModelStep.shouldRemove
shouldRemove(m) ==
  /\ Len(m.Args) = 1
  /\ m.Name = <<"sh">>
  /\ Trim(ArgToString(m.Args[1]), {"\""}) \in stepsToRemove

\* regexp \\\$\(cat .*?VERSION\) replaced by ${inputs.params.version}
\* (ReplaceAllString: leftmost match, shortest tail, "." is not a newline;
\* the template's ${ is malformed for Expand and stays as written).
RECURSIVE ReplaceCatWithDollarSign(_)
ReplaceCatWithDollarSign(s) ==
  LET pre == <<"\\", "$", "(", "cat", " ">>
      post == <<"VERSION", ")">>
      ends(i) == {j \in (i + Len(pre))..(Len(s) - Len(post) + 1) :
                    /\ SubSeq(s, j, j + Len(post) - 1) = post
                    /\ \A k \in (i + Len(pre))..(j - 1) : s[k] # "\n"}
      starts == {i \in 1..(Len(s) - Len(pre) + 1) :
                   SubSeq(s, i, i + Len(pre) - 1) = pre /\ ends(i) # {}}
  IN IF starts = {} THEN s
     ELSE LET i == CHOOSE x \in starts : \A y \in starts : x <= y
              j == CHOOSE x \in ends(i) : \A y \in ends(i) : x <= y
          IN SubSeq(s, 1, i - 1) \o <<"${inputs.params.version}">>
             \o ReplaceCatWithDollarSign(SubSeq(s, j + Len(post), Len(s)))

\* unescapeMultiline
unescapeMultiline(escaped) ==
  ReplaceAll(ReplaceAll(ReplaceAll(escaped, newlinePlaceholder, <<"\n">>),
                        <<"\\", "\\">>, <<"\\">>),
             backtickPlaceholder, <<BackTick>>)

\* toMultilineQuote
toMultilineQuote(escaped) ==
  IF Contains(escaped, multilineSingleQuotePlaceholder)
     \/ Contains(escaped, multilineDoubleQuotePlaceholder)
  THEN LET unescaped == ReplaceAll(ReplaceAll(escaped, multilineDoubleQuotePlaceholder, <<>>),
                                   multilineSingleQuotePlaceholder, <<>>)
           parts == Split(unescapeMultiline(unescaped), <<"\n">>)
       IN << <<"|">> >> \o [i \in 1..Len(parts) |-> TrimSpace(parts[i])]
  ELSE <<escaped>>

\* toCurlyStringFromEscaped
toCurlyStringFromEscaped(escaped) == <<"{">> \o unescapeMultiline(escaped) \o <<"}">>

\* ModelStep.getJxArg
getJxArg(m) ==
  LET rawArg == getArg(m)
      fixed1 == ReplaceCatWithDollarSign(rawArg)
      fixed2 == ReplaceAll(fixed1, <<BackTick, "cat", " ", "VERSION", BackTick>>,
                           <<"${inputs.params.version}">>)
      fixed3 == ReplaceAll(fixed2, doubleQuotePlaceholder, <<"\"">>)
      fixed4 == ReplaceAll(fixed3, singleQuotePlaceholder, <<"'">>)
  IN toMultilineQuote(fixed4)

\* ModelStep.toOriginalGroovy
toOriginalGroovy(m) ==
  IF Len(m.NestedSteps) # 0 THEN <<>>
  ELSE IF Len(m.Args) = 0 THEN m.Name \o <<"()">>
  ELSE IF Len(m.Args) = 1
  THEN LET arg == m.Args[1]
       IN IF arg.Unnamed # <<>>
          THEN IF Contains(getArg(m), newlinePlaceholder)
               THEN m.Name \o <<" ">> \o toCurlyStringFromEscaped(getArg(m))
               ELSE m.Name \o <<" ">> \o getArg(m)
          ELSE m.Name \o <<"(">> \o arg.Named[1].Key \o <<": ">>
               \o ValueToString(arg.Named[1].Value[1]) \o <<")">>
  ELSE LET argStrings ==
             Flatten([i \in 1..Len(m.Args) |->
               IF m.Args[i].Unnamed # <<>>
               THEN << ValueToString(m.Args[i].Unnamed[1]) >>
               ELSE IF m.Args[i].Named # <<>>
               THEN << m.Args[i].Named[1].Key \o <<": ">>
                       \o ValueToString(m.Args[i].Named[1].Value[1]) >>
               ELSE <<>>])
       IN m.Name \o <<"(">> \o Join(argStrings, <<", ">>) \o <<")">>

\* linesForInvalidStep as it would be if an untranslatable step degraded
\* quietly: the comments are written but no forced failure follows them.
linesForInvalidStepQuiet(step, reason, ind) ==
  LET orig == Split(toOriginalGroovy(step), <<"\n">>)
  IN << indentLine(<<"#", " The Jenkins Pipeline step ">> \o step.Name
                   \o <<" cannot be translated directly.">>, ind + 2),
        indentLine(<<"#", " Original step from Jenkinsfile:">>, ind + 2) >>
     \o [i \in 1..Len(orig) |-> indentLine(<<"#", " ">> \o orig[i], ind + 2)]

\* linesForInvalidStep
linesForInvalidStep(step, reason, ind) ==
  LET orig == Split(toOriginalGroovy(step), <<"\n">>)
  IN << indentLine(<<"#", " The Jenkins Pipeline step ">> \o step.Name
                   \o <<" cannot be translated directly.">>, ind + 2),
        IF reason # <<>>
        THEN indentLine(<<"#", " ">> \o reason, ind + 2)
        ELSE indentLine(<<"#", " You may want to consider adding a shell script to your repository that replicates its behavior.">>, ind + 2),
        indentLine(<<"#", " Original step from Jenkinsfile:">>, ind + 2) >>
     \o [i \in 1..Len(orig) |-> indentLine(<<"#", " ">> \o orig[i], ind + 2)]
     \o << indentLine(<<"run: echo 'Invalid step ">> \o step.Name
                      \o <<", failing' && exit 1">>, ind + 2) >>

\* The body of toImageAndSteps's loop: the lines of one flattened step and
\* whether it raised conversionIssues.
singleStepLines(s, image, ind) ==
  LET isShell == s.step.Name = <<"sh">> \/ s.step.Name = <<"echo">>
      reason == IF ~isShell THEN <<>>
                ELSE IF Len(s.step.Args) # 1
                THEN <<"Additional parameters to the Jenkins Pipeline sh step are not supported">>
                ELSE <<"Named parameters to the Jenkins Pipeline sh step are not supported">>
      Run(jxArgs) == IF s.step.Name = <<"echo">>
                     THEN << indentLine(<<"run: ">> \o s.step.Name \o <<" ">>
                                        \o Join(jxArgs, <<" ">>), ind + 2) >>
                     ELSE << indentLine(<<"run: ">> \o jxArgs[1], ind + 2) >>
                          \o [i \in 1..(Len(jxArgs) - 1) |-> indentLine(jxArgs[i + 1], ind + 3)]
      img == IF s.image # image
             THEN << indentLine(<<"image: ">> \o s.image, ind) >> ELSE <<>>
      wd == IF s.dir # <<>>
            THEN << indentLine(<<"working-directory: ./">> \o s.dir, ind + 2) >>
            ELSE <<>>
  IN IF isShell /\ Len(s.step.Args) = 1 /\ s.step.Args[1].Unnamed # <<>>
     THEN [lines |-> Run(getJxArg(s.step)) \o img \o wd, issues |-> FALSE]
     ELSE [lines |-> linesForInvalidStep(s.step, reason, ind), issues |-> TRUE]

\* The flattened steps of a stage that survive the removal filter
\* (toImageAndSteps, baseSteps and stepsToInclude).
StageDefaultImage(m) ==
  IF Len(StageGetSteps(m)) > 0 /\ StageGetSteps(m)[1].Name = <<"container">>
  THEN imageFromContainerStep(StageGetSteps(m)[1]) ELSE <<"maven">>

\* The loop of toImageAndSteps that fills baseSteps.
baseSteps(m) ==
  LET steps == StageGetSteps(m)
  IN Flatten([i \in 1..Len(steps) |->
                nestedStepsWithDirAndImage(steps[i], <<>>, StageDefaultImage(m))])

stepsToInclude(m) == SelectSeq(baseSteps(m), LAMBDA s : ~shouldRemove(s.step))

\* ModelStage.toImageAndSteps
toImageAndSteps(m, ind) ==
  LET Result(image, incl, one) ==
        [image |-> image,
         stepLines |-> Flatten([i \in 1..Len(incl) |->
                         IF Len(one[i].lines) > 0
                         THEN << Join(one[i].lines, <<"\n">>) >> ELSE <<>>]),
         issues |-> \E i \in 1..Len(incl) : one[i].issues]
      Steps(image, incl) ==
        Result(image, incl, [i \in 1..Len(incl) |-> singleStepLines(incl[i], image, ind)])
  IN Steps(StageDefaultImage(m), stepsToInclude(m))

\* The keys prOrReleasePipelineAsYAML collects in its envVars map: every
\* non-empty key of the stages' environment entries.
EnvVarKeys(stages) ==
  {e.Key : e \in UNION {{StageGetEnvironment(stages[i])[j] :
                           j \in 1..Len(StageGetEnvironment(stages[i]))} :
                        i \in 1..Len(stages)}} \ {<<>>}

\* The value the map holds for a key: the entry of the first stage, and the
\* first entry in it, that has the key.
EnvVarOf(stages, key) ==
  LET T(s) == \E j \in 1..Len(StageGetEnvironment(s)) : StageGetEnvironment(s)[j].Key = key
      env == StageGetEnvironment(stages[FirstIndex(stages, T)])
      K(e) == e.Key = key
  IN env[FirstIndex(env, K)]

\* Every order in which ranging over a Go map with these keys may visit them.
MapOrders(keys) ==
  {f \in [1..Cardinality(keys) -> keys] : \A k \in keys : \E i \in DOMAIN f : f[i] = k}

\* The name a stage has once prOrReleasePipelineAsYAML has visited it.
NormalizedName(name) == ReplaceAll(name, <<" ">>, <<"_">>)

\* The job lines with a needs list that names the job in front only: a
\* chain that is not closed over all earlier jobs.
JobLinesNeedsPrevious(stages, idx, stageSteps) ==
  << indentLine(ReplaceAll(stages[idx].Name, <<" ">>, <<"_">>) \o <<":">>, 1),
     indentLine(<<"runs-on: ubuntu-latest">>, 2) >>
  \o (IF idx # 1
      THEN << indentLine(<<"if: ${{ always() }}">>, 2),
              indentLine(<<"needs: [">> \o ReplaceAll(stages[idx - 1].Name, <<" ">>, <<"_">>)
                         \o <<"]">>, 2) >>
      ELSE <<>>)
  \o << indentLine(<<"steps: ">>, 2),
        indentLine(<<"#", " Checks-out your repository under $GITHUB_WORKSPACE, so your job can access it">>, 3),
        indentLine(<<"- uses: actions/checkout@v3">>, 3) >>
  \o Flatten([k \in 1..Len(stageSteps) |->
                << indentLine(<<"- name: step">> \o Digits(k), 3), stageSteps[k] >>])

\* The lines prOrReleasePipelineAsYAML emits for stage idx (counted from 1),
\* whose toImageAndSteps returned the lines stageSteps.
JobLines(stages, idx, stageSteps) ==
  LET s == stages[idx]
      name == NormalizedName(s.Name)
      needsPhase == [k \in 1..(idx - 1) |-> NormalizedName(stages[k].Name)]
  IN << indentLine(name \o <<":">>, 1),
        indentLine(<<"runs-on: ubuntu-latest">>, 2) >>
     \o (IF idx # 1
         THEN << indentLine(<<"if: ${{ always() }}">>, 2),
                 indentLine(<<"needs: [">> \o Join(needsPhase, <<", ">>) \o <<"]">>, 2) >>
         ELSE <<>>)
     \o << indentLine(<<"steps: ">>, 2),
           indentLine(<<"#", " Checks-out your repository under $GITHUB_WORKSPACE, so your job can access it">>, 3),
           indentLine(<<"- uses: actions/checkout@v3">>, 3) >>
     \o Flatten([k \in 1..Len(stageSteps) |->
                   << indentLine(<<"- name: step">> \o Digits(k), 3), stageSteps[k] >>])

\* The rendering of a job group that lets a group without steps pass: no
\* placeholder step, and no issue raised for it.
prOrReleasePipelineAsYAMLNoPlaceholder(stages, order) ==
  LET Out(perStage, env) ==
        LET jobs == Flatten([i \in 1..Len(stages) |->
                               JobLines(stages, i, perStage[i].stepLines)])
            realEnvLines == containsRealEnvLines(env.lines)
            envOut == IF Len(env.lines) > 0
                      THEN (IF realEnvLines
                            THEN << indentLine(<<"environment:">>, 3) >> ELSE <<>>)
                           \o [i \in 1..Len(env.lines) |->
                                 indentLine(env.lines[i], IF realEnvLines THEN 4 ELSE 3)]
                      ELSE <<>>
        IN [text |-> Join(jobs \o envOut, <<"\n">>),
            issues |-> \E i \in 1..Len(stages) : perStage[i].issues,
            panic |-> env.panic]
  IN Out([i \in 1..Len(stages) |-> toImageAndSteps(stages[i], 2)],
         toEnvYamlLines([i \in 1..Len(order) |-> EnvVarOf(stages, order[i])]))

\* prOrReleasePipelineAsYAML.  order is the order in which the range over
\* the envVars map visits its keys.  A panic (toEnvYamlLines) comes after
\* the loop over the stages.
prOrReleasePipelineAsYAML(stages, order) ==
  LET Out(perStage, env) ==
        LET jobs == Flatten([i \in 1..Len(stages) |->
                               JobLines(stages, i, perStage[i].stepLines)])
            stepLines == Flatten([i \in 1..Len(stages) |-> perStage[i].stepLines])
            stageIssues == \E i \in 1..Len(stages) : perStage[i].issues
            realEnvLines == containsRealEnvLines(env.lines)
            envOut == IF Len(env.lines) > 0
                      THEN (IF realEnvLines
                            THEN << indentLine(<<"environment:">>, 3) >> ELSE <<>>)
                           \o [i \in 1..Len(env.lines) |->
                                 indentLine(env.lines[i], IF realEnvLines THEN 4 ELSE 3)]
                      ELSE <<>>
            none == IF stepLines = <<>>
                    THEN << indentLine(<<"#", " No stages were found that will be run.">>, 1),
                            indentLine(<<"- name: step0">>, 1),
                            indentLine(<<"runs: echo 'No stages found, failing' && exit 1">>, 2) >>
                    ELSE <<>>
        IN [text |-> Join(jobs \o envOut \o none, <<"\n">>),
            issues |-> stageIssues \/ none # <<>>,
            panic |-> env.panic]
  IN Out([i \in 1..Len(stages) |-> toImageAndSteps(stages[i], 2)],
         toEnvYamlLines([i \in 1..Len(order) |-> EnvVarOf(stages, order[i])]))

\* ModelPostEntry.isDefaultCleanWs
isDefaultCleanWs(p) ==
  /\ p.Kind = <<"always">>
  /\ Len(p.Steps) = 1
  /\ p.Steps[1].Name = <<"cleanWs">>
  /\ Len(p.Steps[1].Args) = 0

\* Model.ToYaml, the loop over allStages: which stages (by index) go to the
\* pull-request group and which to the release group.
PrStageIndexes(stages) ==
  SelectSeq([i \in 1..Len(stages) |-> i],
            LAMBDA i : LET when == StageGetWhen(stages[i])
                       IN \/ when = <<>>
                          \/ /\ when # <<>>
                             /\ when[1].Branch # <<"master">>
                             /\ HasPrefix(when[1].Branch, <<"P", "R", "-">>))

ReleaseStageIndexes(stages) ==
  SelectSeq([i \in 1..Len(stages) |-> i],
            LAMBDA i : LET when == StageGetWhen(stages[i])
                       IN when = <<>> \/ when[1].Branch = <<"master">>)

\* Model.ToYaml, the loop over allStages: the comment lines of one stage and
\* whether it raised conversionIssues.
StageCommentLines(s) ==
  LET when == StageGetWhen(s)
      dropped == /\ when # <<>>
                 /\ when[1].Branch # <<"master">>
                 /\ ~HasPrefix(when[1].Branch, <<"P", "R", "-">>)
                 /\ Len(when[1].Unsupported) > 0
      post == StageGetPost(s)
      uns == StageGetUnsupported(s)
  IN [lines |->
        (IF dropped
         THEN [k \in 1..Len(when[1].Unsupported) |->
                 indentLine(<<"#", " This Jenkinsfile contains the unsupported when condition '">>
                            \o when[1].Unsupported[k].Name \o <<"' on stage '">> \o s.Name
                            \o <<"'. The stage containing it will not be converted.">>, 2)]
         ELSE <<>>)
        \o (IF Len(post) > 0
            THEN << indentLine(<<"#", " The Jenkinsfile contains a post directive for the stage '">>
                               \o s.Name \o <<"'. This is not converted.">>, 2) >>
            ELSE <<>>)
        \o [k \in 1..Len(uns) |->
              indentLine(<<"#", " The Jenkinsfile contains the ">> \o uns[k].Name
                         \o <<" directive for the stage '">> \o s.Name
                         \o <<"'. This is not converted.">>, 2)],
      issues |-> Len(post) > 0 \/ Len(uns) > 0]

\* Model.ToYaml on model m.  order is the map order of this call.  The
\* result holds the YAML, conversionIssues, how the call ended ("ok", or
\* "panic" for the nil dereference in ToEnv), the two stage groups and the
\* model as the call leaves it (the names of the stages it rendered are
\* normalized in place).
ToYaml(m, order) ==
  LET allStages == ModelGetStages(m)
      prIdx == PrStageIndexes(allStages)
      prStages == [k \in 1..Len(prIdx) |-> allStages[prIdx[k]]]
      Out(env, pr, stageComments) ==
        LET envOut == IF Len(env.lines) > 0
                      THEN (IF containsRealEnvLines(env.lines)
                            THEN << indentLine(<<"env:">>, 0) >> ELSE <<>>)
                           \o [i \in 1..Len(env.lines) |->
                                 indentLine(ReplaceFirst(env.lines[i], <<"-", " ">>, <<>>),
                                            IF containsRealEnvLines(env.lines) THEN 1 ELSE 0)]
                      ELSE <<>>
            onLines ==
              << indentLine(<<"#", " setting github branch triggers: default-branch.">>, 0),
                 indentLine(<<"#", " for customizing: please check https://docs.github.com/en/actions/using-workflows/workflow-syntax-for-github-actions#on">>, 0),
                 indentLine(<<"on:">>, 0),
                 indentLine(<<"push", ":">>, 1), indentLine(<<"branches:">>, 2),
                 indentLine(<<"- master">>, 3),
                 indentLine(<<"pull_request", ":">>, 1), indentLine(<<"branches:">>, 2),
                 indentLine(<<"- master">>, 3) >>
            post == ModelGetPost(m)
            postIssue == Len(post) > 1 \/ (Len(post) = 1 /\ ~isDefaultCleanWs(post[1]))
            postOut == IF postIssue
                       THEN << indentLine(<<"#", " The Jenkinsfile contains a post directive for its pipeline. This is not converted.">>, 1) >>
                       ELSE <<>>
            uns == ModelGetUnsupported(m)
            unsOut == [k \in 1..Len(uns) |->
                         indentLine(<<"#", " The Jenkinsfile contains the ">> \o uns[k].Name
                                    \o <<" directive for its pipeline. This is not converted.">>, 1)]
            relIdx == ReleaseStageIndexes(allStages)
            stageOut == Flatten([i \in 1..Len(allStages) |-> stageComments[i].lines])
            stageIssues == \E i \in 1..Len(allStages) : stageComments[i].issues
            lines == << indentLine(<<"name: github-action.yaml file Created by m2ga">>, 0) >>
                     \o envOut \o << indentLine(<<>>, 0) >> \o onLines
                     \o << indentLine(<<"jobs:">>, 0) >> \o postOut \o unsOut \o stageOut
                     \o << pr.text >>
            renamed == [i \in 1..Len(allStages) |->
                          IF \E k \in 1..Len(prIdx) : prIdx[k] = i
                          THEN [allStages[i] EXCEPT !.Name = NormalizedName(@)]
                          ELSE allStages[i]]
            after == IF StagesEntry(m) = 0 THEN m
                     ELSE [m EXCEPT !.Pipeline[StagesEntry(m)].Stages = renamed]
        IN IF env.panic
           THEN [yaml |-> <<>>, issues |-> FALSE, result |-> "panic",
                 prStages |-> <<>>, releaseStages |-> <<>>, model |-> m]
           ELSE IF pr.panic
           THEN [yaml |-> <<>>, issues |-> FALSE, result |-> "panic",
                 prStages |-> prIdx, releaseStages |-> relIdx, model |-> after]
           ELSE [yaml |-> Join(lines, <<"\n">>),
                 issues |-> postIssue \/ Len(uns) > 0 \/ stageIssues \/ pr.issues,
                 result |-> "ok",
                 prStages |-> prIdx, releaseStages |-> relIdx, model |-> after]
  IN Out(toEnvYamlLines(ModelGetEnvironment(m)),
         prOrReleasePipelineAsYAML(prStages, order),
         [i \in 1..Len(allStages) |-> StageCommentLines(allStages[i])])

\* ------------------------------------------------------ text pre-processing

\* The text of a Jenkinsfile is a sequence of glyphs too.  Its punctuation
\* and white space are single characters; a run of letters, digits and
\* underscores that the code never looks into is one word glyph.  The
\* character in front of a closing brace is always a single character.
Punctuation ==
  {"{", "}", "(", ")", "'", "\"", "\n", " ", "\t", ",", ":", "=", "/", "*", "\\",
   "$", ".", "-", ">", "[", "]", BackTick}

\* The regular expression classes \w and \s.
IsWord(g) == g \notin Punctuation
IsSpace(g) == g \in {" ", "\n", "\t"}

\* s[lo:hi] of Go, 0-based and half-open; ok is FALSE where Go panics with
\* "slice bounds out of range".
GoSlice(s, lo, hi) ==
  IF 0 <= lo /\ lo <= hi /\ hi <= Len(s)
  THEN [ok |-> TRUE, val |-> SubSeq(s, lo + 1, hi)]
  ELSE [ok |-> FALSE, val |-> <<>>]

\* The first position at or after i that fails the test (Len(s) + 1 if
\* every one passes).
RunEnd(s, i, Test(_)) ==
  LET stops == {j \in i..Len(s) : ~Test(s[j])}
  IN IF stops = {} THEN Len(s) + 1 ELSE CHOOSE j \in stops : \A k \in stops : j <= k

\* The regular expression  (\w+)(\(.*?\))?\s+{  tried at position i: the
\* position of the brace that ends the match, or 0.  The word takes its whole
\* run; the optional group is tried first and its .*? stops at the first
\* closing parenthesis of the line that white space and a brace follow.
HeaderEndAt(s, i) ==
  IF i > Len(s) \/ ~IsWord(s[i]) THEN 0
  ELSE LET j == RunEnd(s, i, IsWord)
           BraceAfterSpace(p) ==
             LET k == RunEnd(s, p, IsSpace)
             IN IF k > p /\ k <= Len(s) /\ s[k] = "{" THEN k ELSE 0
           lineEnd == RunEnd(s, j, LAMBDA g : g # "\n")
           closers == {p \in (j + 1)..(lineEnd - 1) :
                         s[p] = ")" /\ BraceAfterSpace(p + 1) # 0}
       IN IF j <= Len(s) /\ s[j] = "(" /\ closers # {}
          THEN BraceAfterSpace((CHOOSE p \in closers : \A q \in closers : p <= q) + 1)
          ELSE BraceAfterSpace(j)

\* regexp.FindAllStringSubmatchIndex: the matches from left to right, none
\* overlapping an earlier one.  start..end is the match, start..nameEnd the
\* first group.
RECURSIVE HeadersFrom(_, _, _)
HeadersFrom(s, cands, from) ==
  LET rest == {i \in cands : i >= from}
  IN IF rest = {} THEN <<>>
     ELSE LET i == CHOOSE a \in rest : \A b \in rest : a <= b
          IN <<[start |-> i, nameEnd |-> RunEnd(s, i, IsWord) - 1, end |-> HeaderEndAt(s, i)]>>
             \o HeadersFrom(s, cands, HeaderEndAt(s, i) + 1)

FindAllHeaders(s) == HeadersFrom(s, {i \in 1..Len(s) : HeaderEndAt(s, i) # 0}, 1)

\* The regular expression  ^(\s+)\S  on one line: its first group, or <<>>.
LeadingSpace(l) ==
  LET k == RunEnd(l, 1, IsSpace)
  IN IF k > 1 /\ k <= Len(l) THEN SubSeq(l, 1, k - 1) ELSE <<>>

\* strings.TrimPrefix
TrimPrefix(s, p) == IF HasPrefix(s, p) THEN SubSeq(s, Len(p) + 1, Len(s)) ELSE s

\* toEscapedFromCurlyString: the first indented line fixes the prefix (less
\* its first two characters when it is longer than two), which is cut from
\* that line and every later one; line breaks and backquotes become
\* placeholders.
toEscapedFromCurlyString(curly) ==
  LET ls == Split(curly, <<"\n">>)
      indented == {q \in 1..Len(ls) : LeadingSpace(ls[q]) # <<>>}
      first1 == IF indented = {} THEN Len(ls) + 1
                ELSE CHOOSE q \in indented : \A r \in indented : q <= r
      match == IF indented = {} THEN <<>> ELSE LeadingSpace(ls[first1])
      wsPrefix == IF Len(match) > 2 THEN SubSeq(match, 3, Len(match)) ELSE match
      indentRemoved == [q \in 1..Len(ls) |->
                          IF q < first1 THEN ls[q] ELSE TrimPrefix(ls[q], wsPrefix)]
  IN ReplaceAll(Join(indentRemoved, newlinePlaceholder), <<BackTick>>, backtickPlaceholder)

\* The last closing brace of fromCurly, whatever lies in between.
ClosingIndexLastBrace(fromCurly) ==
  LET closers == {k \in 1..Len(fromCurly) : fromCurly[k] = "}"}
  IN IF closers = {} THEN 0 ELSE (CHOOSE k \in closers : \A m \in closers : k >= m) - 1

\* The loop of GetBlocks that looks for the closing brace: closingIndex, the
\* 0-based index of the first character of fromCurly at which curlyCount
\* (1 for the header's brace, plus the opening, minus the closing braces
\* read so far) is zero; 0, the variable's initial value, when there is
\* none.
ClosingIndex(fromCurly) ==
  LET curlyCount(k) == 1 + Cardinality({j \in 1..k : fromCurly[j] = "{"})
                         - Cardinality({j \in 1..k : fromCurly[j] = "}"})
      closed == {k \in 1..Len(fromCurly) : curlyCount(k) = 0}
  IN IF closed = {} THEN 0 ELSE (CHOOSE k \in closed : \A m \in closed : k <= m) - 1

\* GetBlocks: one curlyBlock per header match, in order, each with the blocks
\* of its own body; panic where a slice expression is out of range.
RECURSIVE GetBlocks(_)
GetBlocks(fullString) ==
  LET hs == FindAllHeaders(fullString)
      BlockOf(h) ==
        LET fromCurly == SubSeq(fullString, h.end + 1, Len(fullString))
            closingIndex == ClosingIndex(fromCurly)
            original == GoSlice(fromCurly, 0, closingIndex + 1)
            body == GoSlice(fromCurly, 0, closingIndex)
            inner == GoSlice(fromCurly, 0, closingIndex - 1)
            nested == IF original.ok /\ inner.ok THEN GetBlocks(inner.val)
                      ELSE [blocks |-> <<>>, panic |-> TRUE]
        IN [panic |-> nested.panic,
            block |-> [Name |-> SubSeq(fullString, h.start, h.nameEnd),
                       Nested |-> nested.blocks,
                       OriginalText |-> SubSeq(fullString, h.start, h.end) \o original.val,
                       ReplacementText |-> SubSeq(fullString, h.start, h.end - 1)
                                           \o <<BackTick>>
                                           \o toEscapedFromCurlyString(body.val)
                                           \o <<BackTick>>]]
      all == [k \in 1..Len(hs) |-> BlockOf(hs[k])]
  IN [blocks |-> [k \in 1..Len(hs) |-> all[k].block],
      panic |-> \E k \in 1..Len(hs) : all[k].panic]

\* isSupportedField
isSupportedField(name, fields, isBlacklist) ==
  IF \E f \in fields : name = <<f>> THEN ~isBlacklist ELSE isBlacklist

\* escapeUnsupportedFieldsInContext: the loop over block.Nested.
RECURSIVE EscapeNested(_, _, _, _)
EscapeNested(nested, fields, jfText, isBlacklist) ==
  IF nested = <<>> THEN jfText
  ELSE EscapeNested(Tail(nested), fields,
         IF ~isSupportedField(Head(nested).Name, fields, isBlacklist)
         THEN ReplaceAll(jfText, Head(nested).OriginalText, Head(nested).ReplacementText)
         ELSE jfText,
         isBlacklist)

escapeUnsupportedFieldsInContext(block, context, fields, jfText, isBlacklist) ==
  IF block.Name = <<context>>
  THEN EscapeNested(block.Nested, fields, jfText, isBlacklist)
  ELSE jfText

\* The body of ParseJenkinsfile's loop over curlyBlocks, for one block.
EscapeBlockContexts(b, replacedJF) ==
  LET t1 == escapeUnsupportedFieldsInContext(b, "steps", supportedSteps, replacedJF, FALSE)
      t2 == escapeUnsupportedFieldsInContext(b, "when", supportedWhenFields, t1, FALSE)
      t3 == escapeUnsupportedFieldsInContext(b, "agent", unsupportedAgentFields, t2, TRUE)
      t4 == escapeUnsupportedFieldsInContext(b, "stage", unsupportedStageFields, t3, TRUE)
  IN escapeUnsupportedFieldsInContext(b, "pipeline", unsupportedTopLevelFields, t4, TRUE)

\* The two replacements ParseJenkinsfile makes on the text it has read.
ReplaceOnRead(jf) ==
  ReplaceAll(ReplaceAll(jf, <<"\\", "$">>, <<"\\", "\\", "$">>),
             <<".", "toLowerCase", "(", ")">>, <<>>)

\* The first groups of the matches of  (?s)QQQ(.*?)QQQ  for the quote
\* character q, from left to right.
RECURSIVE TripleQuoted(_, _, _)
TripleQuoted(s, q, from) ==
  LET i == IndexFrom(s, <<q, q, q>>, from)
      j == IF i = 0 THEN 0 ELSE IndexFrom(s, <<q, q, q>>, i + 3)
  IN IF j = 0 THEN <<>>
     ELSE <<SubSeq(s, i + 3, j - 1)>> \o TripleQuoted(s, q, j + 3)

\* The replacement loops of escapeSingleQuotedOrMultilineStrings for the
\* triple-quoted strings found (both loops write the SINGLE placeholder).
RECURSIVE ReplaceTripleQuoted(_, _, _)
ReplaceTripleQuoted(fullString, found, q) ==
  IF found = <<>> THEN fullString
  ELSE ReplaceTripleQuoted(
         ReplaceAll(fullString, <<q, q, q>> \o Head(found) \o <<q, q, q>>,
                    <<q>> \o multilineSingleQuotePlaceholder
                    \o toEscapedFromCurlyString(Head(found))
                    \o multilineSingleQuotePlaceholder \o <<q>>),
         Tail(found), q)

EscapeMultilineStrings(fullString) ==
  LET afterSingle == ReplaceTripleQuoted(fullString, TripleQuoted(fullString, "'", 1), "'")
  IN ReplaceTripleQuoted(afterSingle, TripleQuoted(afterSingle, "\"", 1), "\"")

\* The local variables of escapeSingleQuotedOrMultilineStrings in front of
\* its character loop; i is the index (from 0) of the next character.
ScanStart ==
  [i |-> 0, inDoubleQuote |-> FALSE, inEscapeQuote |-> FALSE,
   inSingleLineComment |-> FALSE, inMultilineComment |-> FALSE,
   strInSingleQuote |-> <<>>, sqReplacement |-> <<>>, stringsToReplace |-> <<>>]

\* One iteration of the character loop: the switch on fullString[i].
ScanChar(sc, fullString) ==
  LET i == sc.i
      c == fullString[i + 1]
      prev == IF i > 0 THEN fullString[i] ELSE ""
      notEscaped == i < 1 \/ prev # "\\"
      both(a, b) == [sc EXCEPT !.strInSingleQuote = @ \o a, !.sqReplacement = @ \o b]
      after ==
        CASE c = "/" ->
               IF ~sc.inEscapeQuote /\ ~sc.inDoubleQuote /\ i > 0 /\ prev = "/"
               THEN [sc EXCEPT !.inSingleLineComment = TRUE]
               ELSE IF ~sc.inEscapeQuote /\ ~sc.inDoubleQuote /\ i > 0 /\ prev = "*"
                       /\ sc.inMultilineComment
               THEN [sc EXCEPT !.inMultilineComment = FALSE]
               ELSE IF sc.inEscapeQuote /\ ~sc.inMultilineComment
               THEN both(<<"/">>, <<"/">>)
               ELSE sc
          [] c = "\n" ->
               IF sc.inSingleLineComment THEN [sc EXCEPT !.inSingleLineComment = FALSE]
               ELSE IF sc.inEscapeQuote THEN both(<<"\n">>, newlinePlaceholder)
               ELSE sc
          [] c = "*" ->
               IF ~sc.inSingleLineComment /\ ~sc.inEscapeQuote /\ ~sc.inDoubleQuote
                  /\ ~sc.inMultilineComment /\ i > 0 /\ prev = "/"
               THEN [sc EXCEPT !.inMultilineComment = TRUE]
               ELSE IF sc.inEscapeQuote /\ ~sc.inSingleLineComment
               THEN both(<<"*">>, <<"*">>)
               ELSE sc
          [] c = "\"" ->
               IF sc.inSingleLineComment \/ sc.inMultilineComment THEN sc
               ELSE IF ~sc.inEscapeQuote /\ ~sc.inDoubleQuote
               THEN (IF notEscaped THEN [sc EXCEPT !.inDoubleQuote = TRUE] ELSE sc)
               ELSE IF ~sc.inEscapeQuote /\ sc.inDoubleQuote
               THEN (IF notEscaped THEN [sc EXCEPT !.inDoubleQuote = FALSE] ELSE sc)
               ELSE IF i > 0 /\ prev = "\\" THEN both(<<c>>, <<c>>)
               ELSE both(<<c>>, doubleQuotePlaceholder)
          [] c = "'" ->
               IF sc.inSingleLineComment \/ sc.inMultilineComment THEN sc
               ELSE IF ~sc.inEscapeQuote /\ ~sc.inDoubleQuote
               THEN (IF notEscaped
                     THEN [sc EXCEPT !.inEscapeQuote = TRUE, !.strInSingleQuote = <<"'">>,
                                     !.sqReplacement = <<"'">>]
                     ELSE sc)
               ELSE IF sc.inEscapeQuote /\ ~sc.inDoubleQuote
               THEN (IF notEscaped
                     THEN [sc EXCEPT !.inEscapeQuote = FALSE,
                             !.strInSingleQuote = @ \o <<"'">>,
                             !.sqReplacement = @ \o <<"'">>,
                             !.stringsToReplace =
                                @ \o << <<sc.strInSingleQuote \o <<"'">>,
                                          sc.sqReplacement \o <<"'">> >> >>]
                     ELSE both(<<"'">>, <<"\\">> \o singleQuotePlaceholder))
               ELSE sc
          [] OTHER ->
               IF sc.inEscapeQuote THEN both(<<c>>, <<c>>) ELSE sc
  IN [after EXCEPT !.i = i + 1]

\* The closing loop of escapeSingleQuotedOrMultilineStrings.
RECURSIVE ReplaceQuoted(_, _)
ReplaceQuoted(fullString, stringsToReplace) ==
  IF stringsToReplace = <<>> THEN fullString
  ELSE ReplaceQuoted(ReplaceAll(fullString, Head(stringsToReplace)[1],
                                Head(stringsToReplace)[2]),
                     Tail(stringsToReplace))

\* ------------------------------------------------------------- the lexer

\* participle's default lexer (text/scanner in its GoTokens mode, then
\* unquoting): the tokens of the text, or an error.

\* Word glyphs that are numbers, and glyphs that are one character long.
IntGlyphs == {"0", "1", "2", "3", "4", "5", "6", "7", "8", "9", "10", "42"}
OneCharGlyphs == Punctuation \cup {"0", "1", "2", "3", "4", "5", "6", "7", "8", "9",
                                   "a", "b", "n", "t", "x", "y"}

EOFTok == [type |-> "EOF", value |-> <<>>]

\* The position of the quote q that closes a literal whose content starts
\* at k; 0 when the literal is not terminated on its line or holds an
\* invalid escape (either is a lexer error).  A raw string (raw) ends at
\* the next backquote, whatever is in between.
RECURSIVE LiteralEnd(_, _, _, _)
LiteralEnd(s, k, q, raw) ==
  IF k > Len(s) THEN 0
  ELSE IF s[k] = q THEN k
  ELSE IF raw THEN LiteralEnd(s, k + 1, q, raw)
  ELSE IF s[k] = "\n" THEN 0
  ELSE IF s[k] = "\\"
  THEN (IF k + 1 <= Len(s) /\ s[k + 1] \in {"\\", q, "n", "t"}
        THEN LiteralEnd(s, k + 2, q, raw) ELSE 0)
  ELSE LiteralEnd(s, k + 1, q, raw)

\* strconv.Unquote of the content between double quotes.
RECURSIVE Unquote(_)
Unquote(content) ==
  IF content = <<>> THEN [ok |-> TRUE, val |-> <<>>]
  ELSE IF Head(content) = "\"" THEN [ok |-> FALSE, val |-> <<>>]
  ELSE IF Head(content) = "\\"
  THEN (IF Len(content) >= 2 /\ content[2] \in {"\\", "\"", "n", "t"}
        THEN LET rest == Unquote(SubSeq(content, 3, Len(content)))
                 ch == CASE content[2] = "n" -> "\n"
                         [] content[2] = "t" -> "\t"
                         [] OTHER -> content[2]
             IN [ok |-> rest.ok, val |-> <<ch>> \o rest.val]
        ELSE [ok |-> FALSE, val |-> <<>>])
  ELSE LET rest == Unquote(Tail(content))
       IN [ok |-> rest.ok, val |-> <<Head(content)>> \o rest.val]

\* textScannerTransform: a quoted token is unquoted; a single-quoted token
\* of more than one character becomes a String.
QuotedToken(q, content) ==
  LET u == Unquote(content)
      many == Len(u.val) > 1 \/ (Len(u.val) = 1 /\ u.val[1] \notin OneCharGlyphs)
  IN [ok |-> u.ok,
      tok |-> [type |-> IF q = "\"" \/ many THEN "String" ELSE "Char", value |-> u.val]]

\* The first position at or after p that is neither white space nor inside
\* a comment; 0 when a comment is not terminated.
RECURSIVE SkipBlank(_, _)
SkipBlank(s, p) ==
  LET q == RunEnd(s, p, IsSpace)
      next == IF q < Len(s) THEN s[q + 1] ELSE ""
  IN IF q > Len(s) THEN q
     ELSE IF s[q] = "/" /\ next = "/" THEN SkipBlank(s, RunEnd(s, q, LAMBDA g : g # "\n"))
     ELSE IF s[q] = "/" /\ next = "*"
     THEN LET e == IndexFrom(s, <<"*", "/">>, q + 2)
          IN IF e = 0 THEN 0 ELSE SkipBlank(s, e + 2)
     ELSE q

\* The token that starts at position p, and the position behind it.
TokenAt(s, p) ==
  LET c == s[p]
      next == IF p < Len(s) THEN s[p + 1] ELSE ""
      Tok(type, value, q) == [ok |-> TRUE, tok |-> [type |-> type, value |-> value], next |-> q]
      bad == [ok |-> FALSE, tok |-> EOFTok, next |-> p]
      Quoted(t, e) == IF ~t.ok THEN bad ELSE [ok |-> TRUE, tok |-> t.tok, next |-> e + 1]
      QuotedTo(e) == IF e = 0 THEN bad
                     ELSE Quoted(QuotedToken(c, SubSeq(s, p + 1, e - 1)), e)
      RawTo(e) == IF e = 0 THEN bad ELSE Tok("RawString", SubSeq(s, p + 1, e - 1), e + 1)
  IN IF c \in {"\"", "'"} THEN QuotedTo(LiteralEnd(s, p + 1, c, FALSE))
     ELSE IF c = BackTick THEN RawTo(LiteralEnd(s, p + 1, c, TRUE))
     ELSE IF c \in IntGlyphs
     THEN (IF next = "." /\ p + 2 <= Len(s) /\ s[p + 2] \in IntGlyphs
           THEN Tok("Float", SubSeq(s, p, p + 2), p + 3)
           ELSE Tok("Int", <<c>>, p + 1))
     ELSE IF IsWord(c) THEN Tok("Ident", <<c>>, p + 1)
     ELSE Tok("Punct", <<c>>, p + 1)

\* The tokens of s from position p on.
RECURSIVE Lex(_, _)
Lex(s, p) ==
  LET failed == [ok |-> FALSE, toks |-> <<>>]
      Cons(t, rest) == [ok |-> rest.ok, toks |-> <<t.tok>> \o rest.toks]
      More(t) == IF ~t.ok THEN failed ELSE Cons(t, Lex(s, t.next))
      From(q) == IF q = 0 THEN failed
                 ELSE IF q > Len(s) THEN [ok |-> TRUE, toks |-> <<>>]
                 ELSE More(TokenAt(s, q))
  IN From(SkipBlank(s, p))

\* ------------------------------------------------------------ the grammar

\* The participle grammar of the struct tags, as a recursive-descent parser
\* over the tokens.  A parse returns st = "ok" with the captured value and
\* the position behind it, "no" when the node does not match where it
\* stands (the caller may try something else), or "err" when it fails after
\* it has consumed more than the one token of lookahead.
At(toks, p) == IF p <= Len(toks) THEN toks[p] ELSE EOFTok
Lit(toks, p, v) == At(toks, p).type # "EOF" /\ At(toks, p).value = <<v>>
Matched(val, pos) == [st |-> "ok", val |-> val, pos |-> pos]
NoMatch(pos) == [st |-> "no", val |-> <<>>, pos |-> pos]
ParseError(pos) == [st |-> "err", val |-> <<>>, pos |-> pos]

RECURSIVE ParseEntry(_, _, _, _)
RECURSIVE ParseEntries(_, _, _, _)

\* "{" { @@ } "}" around entries of one struct.
Braced(kind, toks, p, addr) ==
  LET Close(m) == IF m.st = "ok" /\ Lit(toks, m.pos, "}") THEN Matched(m.val, m.pos + 1)
                  ELSE ParseError(m.pos)
  IN IF ~Lit(toks, p, "{") THEN NoMatch(p)
     ELSE Close(ParseEntries(kind, toks, p + 1, addr))

\* struct Value
IsValueTok(toks, p) ==
  \/ At(toks, p).type \in {"String", "RawString", "Float", "Int"}
  \/ Lit(toks, p, "true")
  \/ Lit(toks, p, "false")

\* struct ModelStepArg with ModelStepNamedArg
ParseModelStepArg(toks, p, addr) ==
  IF IsValueTok(toks, p) THEN Matched(UnnamedArg(At(toks, p), addr), p + 1)
  ELSE IF At(toks, p).type \in {"Ident", "String", "Char"} /\ Lit(toks, p + 1, ":")
  THEN (IF IsValueTok(toks, p + 2)
        THEN Matched(NamedArg(At(toks, p).value, At(toks, p + 2), addr), p + 3)
        ELSE ParseError(p + 2))
  ELSE NoMatch(p)

\* { "," @@ } of ModelStep.Args
RECURSIVE ParseMoreArgs(_, _, _)
ParseMoreArgs(toks, p, addr) ==
  LET Cons(a, rest) == IF rest.st = "err" THEN rest
                       ELSE Matched(<<a.val>> \o rest.val, rest.pos)
      After(a) == IF a.st = "err" THEN a
                  ELSE IF a.st = "no" THEN Matched(<<>>, p)
                  ELSE Cons(a, ParseMoreArgs(toks, a.pos, addr))
  IN IF ~Lit(toks, p, ",") THEN Matched(<<>>, p)
     ELSE After(ParseModelStepArg(toks, p + 1, addr))

\* ("{" { @@ } "}")* of ModelStep.NestedSteps
RECURSIVE ParseNestedSteps(_, _, _)
ParseNestedSteps(toks, p, addr) ==
  LET Cons(g, rest) == IF rest.st = "err" THEN rest
                       ELSE Matched(g.val \o rest.val, rest.pos)
      After(g) == IF g.st = "no" THEN Matched(<<>>, p)
                  ELSE IF g.st = "err" THEN g
                  ELSE Cons(g, ParseNestedSteps(toks, g.pos, addr))
  IN After(Braced("ModelStep", toks, p, addr))

\* struct ModelStep
ParseModelStep(toks, p, addr) ==
  LET p1 == IF Lit(toks, p + 1, "(") THEN p + 2 ELSE p + 1
      Build(a, more, nested) ==
        IF nested.st = "err" THEN nested
        ELSE Matched(Step(At(toks, p).value,
                          (IF a.st = "ok" THEN <<a.val>> ELSE <<>>) \o more.val,
                          nested.val),
                     nested.pos)
      Nested(a, more) ==
        IF more.st = "err" THEN more
        ELSE Build(a, more,
                   ParseNestedSteps(toks, IF Lit(toks, more.pos, ")")
                                          THEN more.pos + 1 ELSE more.pos, addr))
      Args(a) ==
        IF a.st = "err" THEN a
        ELSE Nested(a, ParseMoreArgs(toks, IF a.st = "ok" THEN a.pos ELSE p1, addr))
  IN IF At(toks, p).type # "Ident" THEN NoMatch(p)
     ELSE Args(ParseModelStepArg(toks, p1, addr))

\* struct ModelPostEntry
ParseModelPostEntry(toks, p, addr) ==
  LET Entry(g) == IF g.st = "ok" THEN Matched(PostEntry(At(toks, p).value, g.val), g.pos)
                  ELSE g
  IN IF At(toks, p).type # "Ident" THEN NoMatch(p)
     ELSE Entry(Braced("ModelStep", toks, p + 1, addr))

\* struct ModelEnvironmentEntry with ModelEnvironmentEntryValue
ParseModelEnvironmentEntry(toks, p, addr) ==
  IF At(toks, p).type # "Ident" \/ ~Lit(toks, p + 1, "=") THEN NoMatch(p)
  ELSE IF At(toks, p + 2).type \in {"String", "Char"}
  THEN Matched(EnvString(At(toks, p).value, At(toks, p + 2).value), p + 3)
  ELSE IF /\ Lit(toks, p + 2, "credentials") /\ Lit(toks, p + 3, "(")
          /\ At(toks, p + 4).type \in {"String", "Char"} /\ Lit(toks, p + 5, ")")
  THEN Matched(EnvCredential(At(toks, p).value, At(toks, p + 4).value), p + 6)
  ELSE ParseError(p + 2)

\* struct UnsupportedModelBlock
ParseUnsupportedModelBlock(toks, p, addr) ==
  IF At(toks, p).type = "Ident" /\ At(toks, p + 1).type \in {"String", "RawString"}
  THEN Matched(Unsupported(At(toks, p).value, At(toks, p + 1).value), p + 2)
  ELSE NoMatch(p)

\* struct ModelAgent
ParseModelAgent(toks, p, addr) ==
  IF /\ \E w \in {"label", "kubernetes", "any"} : Lit(toks, p, w)
     /\ At(toks, p + 1).type \in {"String", "RawString"}
  THEN Matched(At(toks, p + 1).value, p + 2)
  ELSE NoMatch(p)

\* "agent" "{" @@ "}"
ParseAgentBlock(toks, p, addr) ==
  LET Close(a) == IF a.st = "ok" /\ Lit(toks, a.pos, "}") THEN Matched(a.val, a.pos + 1)
                  ELSE ParseError(a.pos)
  IN Close(ParseModelAgent(toks, p + 2, addr))

\* struct ModelWhen
ParseModelWhen(toks, p, addr) ==
  LET Other(u) == IF u.st = "ok" THEN Matched(WhenUnsupported(u.val), u.pos) ELSE u
  IN IF Lit(toks, p, "branch") /\ At(toks, p + 1).type = "String"
     THEN Matched(WhenBranch(At(toks, p + 1).value), p + 2)
     ELSE Other(ParseUnsupportedModelBlock(toks, p, addr))

\* struct ModelStageEntry
ParseModelStageEntry(toks, p, addr) ==
  LET Opens(w) == Lit(toks, p, w) /\ Lit(toks, p + 1, "{")
      Wrap(r, Make(_)) == IF r.st = "ok" THEN Matched(Make(r.val), r.pos) ELSE ParseError(r.pos)
      Close(w) == IF w.st = "ok" /\ Lit(toks, w.pos, "}")
                  THEN Matched(StageWhen(w.val), w.pos + 1) ELSE ParseError(w.pos)
      Other(u) == IF u.st = "ok" THEN Matched(StageUnsupported(u.val), u.pos) ELSE u
  IN IF Opens("agent") THEN Wrap(ParseAgentBlock(toks, p, addr), StageAgent)
     ELSE IF Opens("environment")
     THEN Wrap(Braced("ModelEnvironmentEntry", toks, p + 1, addr), StageEnvironment)
     ELSE IF Opens("steps") THEN Wrap(Braced("ModelStep", toks, p + 1, addr), StageSteps)
     ELSE IF Opens("post") THEN Wrap(Braced("ModelPostEntry", toks, p + 1, addr), StagePost)
     ELSE IF Opens("when") THEN Close(ParseModelWhen(toks, p + 2, addr))
     ELSE Other(ParseUnsupportedModelBlock(toks, p, addr))

\* struct ModelStage
ParseModelStage(toks, p, addr) ==
  LET Entries(g) == IF g.st = "ok" THEN Matched(Stage(At(toks, p + 2).value, g.val), g.pos)
                    ELSE ParseError(g.pos)
  IN IF ~Lit(toks, p, "stage") THEN NoMatch(p)
     ELSE IF Lit(toks, p + 1, "(") /\ At(toks, p + 2).type = "String" /\ Lit(toks, p + 3, ")")
     THEN Entries(Braced("ModelStageEntry", toks, p + 4, addr))
     ELSE ParseError(p + 1)

\* struct ModelPipelineEntry
ParseModelPipelineEntry(toks, p, addr) ==
  LET Opens(w) == Lit(toks, p, w) /\ Lit(toks, p + 1, "{")
      Wrap(r, Make(_)) == IF r.st = "ok" THEN Matched(Make(r.val), r.pos) ELSE ParseError(r.pos)
      Other(u) == IF u.st = "ok" THEN Matched(PipelineUnsupported(u.val), u.pos) ELSE u
  IN IF Opens("agent") THEN Wrap(ParseAgentBlock(toks, p, addr), PipelineAgent)
     ELSE IF Opens("environment")
     THEN Wrap(Braced("ModelEnvironmentEntry", toks, p + 1, addr), PipelineEnvironment)
     ELSE IF Opens("stages") THEN Wrap(Braced("ModelStage", toks, p + 1, addr), PipelineStages)
     ELSE IF Opens("post") THEN Wrap(Braced("ModelPostEntry", toks, p + 1, addr), PipelinePost)
     ELSE Other(ParseUnsupportedModelBlock(toks, p, addr))

\* One @@ of the named struct.
ParseEntry(kind, toks, p, addr) ==
  CASE kind = "ModelStep" -> ParseModelStep(toks, p, addr)
    [] kind = "ModelPostEntry" -> ParseModelPostEntry(toks, p, addr)
    [] kind = "ModelEnvironmentEntry" -> ParseModelEnvironmentEntry(toks, p, addr)
    [] kind = "ModelStageEntry" -> ParseModelStageEntry(toks, p, addr)
    [] kind = "ModelStage" -> ParseModelStage(toks, p, addr)
    [] kind = "ModelPipelineEntry" -> ParseModelPipelineEntry(toks, p, addr)

\* { @@ }: entries of the named struct for as long as one matches.
ParseEntries(kind, toks, p, addr) ==
  LET Cons(e, rest) == IF rest.st = "err" THEN rest
                       ELSE Matched(<<e.val>> \o rest.val, rest.pos)
      After(e) == IF e.st = "no" THEN Matched(<<>>, p)
                  ELSE IF e.st = "err" THEN e
                  ELSE Cons(e, ParseEntries(kind, toks, e.pos, addr))
  IN After(ParseEntry(kind, toks, p, addr))

\* struct Model, and the end of input behind it.
ParseModel(toks, addr) ==
  LET Whole(g) == IF g.st = "ok" /\ g.pos = Len(toks) + 1 THEN Matched(Model(g.val), g.pos)
                  ELSE ParseError(g.pos)
  IN IF ~Lit(toks, 1, "pipeline") THEN ParseError(1)
     ELSE Whole(Braced("ModelPipelineEntry", toks, 2, addr))

\* parser.ParseString: the model, or an error (the lexer's or the
\* grammar's).
ParseString(replacedJF, addr) ==
  LET Result(m) == [ok |-> m.st = "ok", model |-> m.val]
      Grammar(lexed) == IF lexed.ok THEN ParseModel(lexed.toks, addr) ELSE ParseError(0)
  IN Result(Grammar(Lex(replacedJF, 1)))

\* ---------------------------------------------------------------- inputs

\* Tokens as the lexer hands them to the grammar.
StrTok(v)   == [type |-> "String", value |-> v]
RawTok(v)   == [type |-> "RawString", value |-> v]
IntTok(v)   == [type |-> "Int", value |-> v]
FloatTok(v) == [type |-> "Float", value |-> v]
IdentTok(v) == [type |-> "Ident", value |-> v]

\* Addresses the parser's allocations may get (never nil, never a small
\* number).
HeapAddrs == {49152, 49160}

\* Steps.
ShMake     == Step(<<"sh">>, <<UnnamedArg(StrTok(<<"make">>), 0)>>, <<>>)
ShTest     == Step(<<"sh">>, <<UnnamedArg(StrTok(<<"make", " ", "test">>), 0)>>, <<>>)
EchoHi     == Step(<<"echo">>, <<UnnamedArg(StrTok(<<"hi">>), 0)>>, <<>>)
ShCheckout == Step(<<"sh">>, <<UnnamedArg(StrTok(<<"checkout scm">>), 0)>>, <<>>)
ShNoArgs   == Step(<<"sh">>, <<>>, <<>>)
ShNamed    == Step(<<"sh">>, <<NamedArg(<<"script">>, StrTok(<<"make">>), 0)>>, <<>>)
EchoTwo    == Step(<<"echo">>, <<UnnamedArg(StrTok(<<"a">>), 0), UnnamedArg(StrTok(<<"b">>), 0)>>, <<>>)
ShStdout(a) ==
  Step(<<"sh">>, <<NamedArg(<<"script">>, StrTok(<<"make">>), 0),
                   NamedArg(<<"returnStdout">>, IdentTok(<<"true">>), a)>>, <<>>)
CustomInt(a)   == Step(<<"customStep">>, <<NamedArg(<<"foo">>, IntTok(<<"1">>), a)>>, <<>>)
CustomFloat(a) == Step(<<"timeout">>, <<NamedArg(<<"time">>, FloatTok(<<"1", ".", "5">>), a)>>, <<>>)
CustomTrue(a)  == Step(<<"junit">>, <<NamedArg(<<"allowEmpty">>, IdentTok(<<"true">>), a)>>, <<>>)
CustomFalse    == Step(<<"junit">>, <<NamedArg(<<"allowEmpty">>, IdentTok(<<"false">>), 0)>>, <<>>)
CustomString   == Step(<<"archive">>, <<NamedArg(<<"path">>, StrTok(<<"out">>), 0)>>, <<>>)
CleanWs        == Step(<<"cleanWs">>, <<>>, <<>>)
DirBackend     == Step(<<"dir">>, <<UnnamedArg(StrTok(<<"backend">>), 0)>>, <<ShTest>>)
\* dir and container steps around other steps
Dir(path, nested)       == Step(<<"dir">>, <<UnnamedArg(StrTok(path), 0)>>, nested)
Container(name, nested) == Step(<<"container">>, <<UnnamedArg(StrTok(name), 0)>>, nested)
Retry(nested)           == Step(<<"retry">>, <<UnnamedArg(IntTok(<<"3">>), 49152)>>, nested)

\* Stages every generated pipeline may combine freely.
CoreStages ==
  { Stage(<<"Build">>, <<StageSteps(<<ShMake>>)>>),
    Stage(<<"Build", " ", "App">>,
          <<StageSteps(<<EchoHi>>), StagePost(<<PostEntry(<<"always">>, <<CleanWs>>)>>)>>),
    Stage(<<"Deploy">>, <<StageWhen(WhenBranch(<<"master">>)), StageSteps(<<ShMake>>)>>),
    Stage(<<"Pack">>, <<StageSteps(<<DirBackend, ShMake>>)>>),
    Stage(<<"Check">>,
          <<StageWhen(WhenBranch(<<"P", "R", "-", "1">>)),
            StageSteps(<<CustomInt(49152), ShMake>>)>>) }

\* Stages that appear alone or next to one plain stage.
FeatureStages ==
  { Stage(<<"Gate">>,
          <<StageWhen(WhenUnsupported(Unsupported(<<"expression">>, <<"return true">>))),
            StageSteps(<<ShMake>>)>>),
    Stage(<<"Dev">>, <<StageWhen(WhenBranch(<<"develop">>)), StageSteps(<<ShMake>>)>>),
    Stage(<<"Setup">>, <<StageSteps(<<ShCheckout>>)>>),
    Stage(<<"Env">>,
          <<StageEnvironment(<<EnvString(<<"FOO">>, <<"x">>), EnvString(<<"BAR">>, <<"y">>)>>),
            StageSteps(<<ShMake>>)>>),
    Stage(<<"Home">>,
          <<StageEnvironment(<<EnvString(<<"BAZ">>, <<"$", "HOME">>)>>),
            StageSteps(<<ShMake>>)>>),
    Stage(<<"Opts">>,
          <<StageUnsupported(Unsupported(<<"options">>, <<"timestamps()">>)),
            StageSteps(<<ShMake>>)>>),
    Stage(<<"Build", "_", "App">>, <<StageSteps(<<ShMake>>)>>),
    Stage(<<"Creds">>,
          <<StageEnvironment(<<EnvCredential(<<"TOKEN">>, <<"jenkins-token">>)>>),
            StageSteps(<<ShMake>>)>>),
    Stage(<<"Nest">>,
          <<StageSteps(<<ShMake,
                         Dir(<<"web">>,
                             <<ShTest,
                               Dir(<<"app">>, <<EchoHi, Container(<<"node">>, <<ShMake>>)>>),
                               Retry(<<ShMake>>)>>),
                         Container(<<"golang">>, <<Dir(<<"cmd">>, <<ShTest>>), ShMake>>),
                         Dir(<<"docs">>, <<>>),
                         EchoHi>>)>>),
    Stage(<<"Dirs">>,
          <<StageSteps(<<Dir(<<".", "/", "src">>, <<ShMake>>),
                         Dir(<<".", ".", "/", "x">>, <<ShMake>>),
                         Dir(<<".", "github">>, <<ShTest>>),
                         Dir(<<"a", "/", "b", "/">>, <<EchoHi>>)>>)>>),
    Stage(<<"Quote">>,
          <<StageSteps(<<Step(<<"sh">>,
                              <<UnnamedArg(StrTok(<<"\"", "make", "\"", " ", "all">>), 0)>>,
                              <<>>),
                         Step(<<"sh">>,
                              <<UnnamedArg(StrTok(<<"echo", " ", "\"", "hi", "\"">>), 0)>>,
                              <<>>)>>)>>),
    Stage(<<"Box">>,
          <<StageSteps(<<Container(<<"golang">>,
                                   <<ShMake, Container(<<"node">>, <<ShTest>>)>>),
                         ShTest>>)>>),
    Stage(<<"Bad">>, <<StageSteps(<<ShNoArgs, ShNamed, EchoTwo, CustomString, CustomFalse>>)>>) }
  \cup { Stage(<<"Lint">>,
               <<StageSteps(<<ShStdout(a), CustomInt(a), CustomFloat(a), CustomTrue(a)>>)>>) :
           a \in HeapAddrs }

PlainStage == Stage(<<"Build">>, <<StageSteps(<<ShMake>>)>>)

\* Sequences of at most n elements of S.
SeqsUpTo(S, n) == UNION {[1..k -> S] : k \in 1..n}

StageLists ==
  SeqsUpTo(CoreStages, MaxStages)
  \cup {<<f>> : f \in FeatureStages}
  \cup {<<PlainStage, f>> : f \in FeatureStages}
  \cup {<<f, PlainStage>> : f \in FeatureStages}

\* Top-level entries in front of and behind the stages of a pipeline.
Triggers == PipelineUnsupported(Unsupported(<<"triggers">>, <<"cron('H 4 * * *')">>))
Options  == PipelineUnsupported(Unsupported(<<"options">>, <<"timestamps()">>))
Tops ==
  { << <<PipelineAgent(<<"any">>)>>, <<>> >>,
    << <<PipelineAgent(<<"any">>),
         PipelineEnvironment(<<EnvString(<<"FOO">>, <<"x">>)>>)>>, <<>> >>,
    << <<PipelineEnvironment(<<EnvString(<<"BAR">>, <<"$", "HOME">>)>>)>>, <<>> >>,
    << <<PipelineEnvironment(<<EnvString(<<"FOO">>, <<"x">>),
                               EnvString(<<"BAR">>, <<"$", "HOME">>),
                               EnvString(<<"APP_NAME">>, <<"$", "NAME">>)>>)>>, <<>> >>,
    << <<PipelineEnvironment(<<EnvCredential(<<"TOKEN">>, <<"jenkins-token">>)>>)>>, <<>> >>,
    << <<Triggers>>, <<>> >>,
    << <<Options, Triggers>>, <<>> >>,
    << <<PipelineAgent(<<"any">>)>>, <<Triggers, Options>> >>,
    << <<>>, <<PipelinePost(<<PostEntry(<<"always">>, <<CleanWs>>)>>)>> >>,
    << <<>>, <<PipelinePost(<<PostEntry(<<"failure">>, <<EchoHi>>)>>)>> >> }

\* The models the parser is taken to have produced.
Models ==
  {Model(<<PipelineAgent(<<"any">>), PipelineStages(l)>>) : l \in StageLists}
  \cup {Model(t[1] \o <<PipelineStages(<<PlainStage>>)>> \o t[2]) : t \in Tops}
  \cup {Model(<<PipelineAgent(<<"any">>)>>)}

\* Jenkinsfiles, as text.  Every pipeline has one stage 'Build' whose steps
\* are the given lines.
Sq(x) == <<"'">> \o x \o <<"'">>
Dq(x) == <<"\"">> \o x \o <<"\"">>

JenkinsfileOf(stepLines) ==
  <<"pipeline", " ", "{", "\n",
    " ", " ", "stages", " ", "{", "\n",
    " ", " ", " ", " ", "stage", "(">> \o Sq(<<"Build">>) \o <<")", " ", "{", "\n",
    " ", " ", " ", " ", " ", " ", "steps", " ", "{", "\n">>
  \o stepLines
  \o <<" ", " ", " ", " ", " ", " ", "}", "\n",
       " ", " ", " ", " ", "}", "\n",
       " ", " ", "}", "\n",
       "}", "\n">>

StepLine(text) == <<" ", " ", " ", " ", " ", " ", " ", " ">> \o text \o <<"\n">>

\* sh 'make'   and   sh "make test"
ShMakeText == <<"sh", " ">> \o Sq(<<"make">>)
ShTestText == <<"sh", " ">> \o Dq(<<"make", " ", "test">>)
\* dir('backend') { container('node') { sh 'echo hi' } }
DirContainerText ==
  <<"dir", "(">> \o Sq(<<"backend">>) \o <<")", " ", "{", " ", "container", "(">>
  \o Sq(<<"node">>) \o <<")", " ", "{", " ", "sh", " ">> \o Sq(<<"echo", " ", "hi">>)
  \o <<" ", "}", " ", "}">>
\* dir('backend') { sh 'make' }
DirText ==
  <<"dir", "(">> \o Sq(<<"backend">>) \o <<")", " ", "{", " ">> \o ShMakeText \o <<" ", "}">>
\* container('node'){ sh 'make' }, the brace right behind the parenthesis
ContainerTightText ==
  <<"container", "(">> \o Sq(<<"node">>) \o <<")", "{", " ">> \o ShMakeText \o <<" ", "}">>
\* sh 'echo "hi"<line break>done'
ShTwoLinesText == <<"sh", " ">> \o Sq(<<"echo", " ">> \o Dq(<<"hi">>) \o <<"\n", "done">>)
\* sh '''<line break>make<line break>make test<line break>'''
ShTripleText ==
  <<"sh", " ", "'", "'", "'", "\n", " ", " ", "make", "\n", " ", " ", "make", " ", "test",
    "\n", "'", "'", "'">>
\* // build it's   and   /* build */ in front of a step
CommentText == <<"/", "/", " ", "build", " ", "it", "'", "s">>
BlockCommentText == <<"/", "*", " ", "build", " ", "*", "/", " ">> \o ShMakeText
\* /* build // it */ in front of a step
SlashesInBlockCommentText ==
  <<"/", "*", " ", "build", " ", "/", "/", " ", "it", " ", "*", "/", " ">> \o ShMakeText
\* customStep(foo: 1)   and   retry(3) { sh 'make' }
CustomStepText == <<"customStep", "(", "foo", ":", " ", "1", ")">>
RetryText == <<"retry", "(", "3", ")", " ", "{", " ">> \o ShMakeText \o <<" ", "}">>
\* dir('backend') { retry(3) { sh 'make' } }   and   dir('backend') { sh 'make'
DirRetryText ==
  <<"dir", "(">> \o Sq(<<"backend">>) \o <<")", " ", "{", " ">> \o RetryText \o <<" ", "}">>
\* dir('backend') {}
EmptyBodyText == <<"dir", "(">> \o Sq(<<"backend">>) \o <<")", " ", "{", "}">>
UnterminatedDirText ==
  <<"dir", "(">> \o Sq(<<"backend">>) \o <<")", " ", "{", " ">> \o ShMakeText

StepTexts ==
  { ShMakeText, ShTestText, DirContainerText, DirText, ContainerTightText, ShTwoLinesText,
    ShTripleText, CommentText, BlockCommentText, CustomStepText, RetryText, DirRetryText,
    UnterminatedDirText, SlashesInBlockCommentText, EmptyBodyText }

\* The files the conversion is run on: one or two step lines, the second
\* one a plain sh.
Jenkinsfiles ==
  {JenkinsfileOf(StepLine(t)) : t \in StepTexts}
  \cup {JenkinsfileOf(StepLine(ShMakeText) \o StepLine(t) \o StepLine(ShTestText)) :
          t \in StepTexts}

\* ----------------------------------------------------------------- state

VARIABLES
  source,       \* the Jenkinsfile as read (<<>> when a model is given directly)
  pc,           \* where the conversion stands
  jf,           \* replacedJF of ParseJenkinsfile / fullString of the scanner
  curlyBlocks,  \* the blocks GetBlocks returned
  blockIdx,     \* the next block of ParseJenkinsfile's loop
  scan,         \* the local variables of the character scan
  parsed,       \* the model as the parser returned it
  model,        \* the model now (ToYaml renames stages in place)
  renders,      \* how many times ToYaml has been called on it
  first,        \* what the first call returned
  last,         \* what the latest call returned
  tmp,          \* what is at uploadPath in the temporary directory
  http,         \* the upload handler: its position, locals and responses
  peer          \* the handler of a second request, running concurrently

vars ==
  <<source, pc, jf, curlyBlocks, blockIdx, scan, parsed, model, renders, first, last,
    tmp, http, peer>>

NoResult ==
  [yaml |-> <<>>, issues |-> FALSE, result |-> "none", prStages |-> <<>>,
   releaseStages |-> <<>>]

\* The value of the model variables while there is no model.
NilModel == Model(<<>>)

\* Nothing at uploadPath, and no request being handled.
NoFile == [kind |-> "none", content |-> <<>>, jenkinsfile |-> <<>>]

NoRequest ==
  [pc |-> "none", hasFile |-> FALSE, upload |-> <<>>, saved |-> FALSE, err |-> FALSE,
   responses |-> <<>>, toYamlOnNil |-> FALSE, panicked |-> FALSE]

\* ToYaml on the models of Models.
Init ==
  /\ source = <<>>
  /\ pc = "parsed"
  /\ jf = <<>>
  /\ curlyBlocks = <<>>
  /\ blockIdx = 0
  /\ scan = ScanStart
  /\ parsed \in Models
  /\ model = parsed
  /\ renders = 0
  /\ first = NoResult
  /\ last = NoResult
  /\ tmp = NoFile
  /\ http = NoRequest
  /\ peer = NoRequest

\* ParseJenkinsfile and then ToYaml on the files of Jenkinsfiles.
InitConv ==
  /\ source \in Jenkinsfiles
  /\ pc = "read"
  /\ jf = source
  /\ curlyBlocks = <<>>
  /\ blockIdx = 0
  /\ scan = ScanStart
  /\ parsed = NilModel
  /\ model = NilModel
  /\ renders = 0
  /\ first = NoResult
  /\ last = NoResult
  /\ tmp = NoFile
  /\ http = NoRequest
  /\ peer = NoRequest

\* ParseJenkinsfile up to its loop: the two replacements and GetBlocks.
ReadAndGetBlocks ==
  /\ pc = "read"
  /\ jf' = ReplaceOnRead(jf)
  /\ \E got \in {GetBlocks(jf')} :
       /\ curlyBlocks' = got.blocks
       /\ pc' = IF got.panic THEN "panic" ELSE "escape"
  /\ blockIdx' = 1
  /\ UNCHANGED <<source, scan, parsed, model, renders, first, last, tmp, http, peer>>

\* One iteration of ParseJenkinsfile's loop over curlyBlocks.
EscapeBlock ==
  /\ pc = "escape"
  /\ blockIdx <= Len(curlyBlocks)
  /\ jf' = EscapeBlockContexts(curlyBlocks[blockIdx], jf)
  /\ blockIdx' = blockIdx + 1
  /\ UNCHANGED <<source, pc, curlyBlocks, scan, parsed, model, renders, first, last, tmp, http, peer>>

\* escapeSingleQuotedOrMultilineStrings up to its character loop.
StartScan ==
  /\ pc = "escape"
  /\ blockIdx > Len(curlyBlocks)
  /\ jf' = EscapeMultilineStrings(jf)
  /\ scan' = ScanStart
  /\ pc' = "scan"
  /\ UNCHANGED <<source, curlyBlocks, blockIdx, parsed, model, renders, first, last, tmp, http, peer>>

\* One iteration of the character loop.
ScanNext ==
  /\ pc = "scan"
  /\ scan.i < Len(jf)
  /\ scan' = ScanChar(scan, jf)
  /\ UNCHANGED <<source, pc, jf, curlyBlocks, blockIdx, parsed, model, renders, first, last, tmp, http, peer>>

\* The end of escapeSingleQuotedOrMultilineStrings: the collected strings
\* are replaced.
FinishScan ==
  /\ pc = "scan"
  /\ scan.i >= Len(jf)
  /\ jf' = ReplaceQuoted(jf, scan.stringsToReplace)
  /\ pc' = "parse"
  /\ UNCHANGED <<source, curlyBlocks, blockIdx, scan, parsed, model, renders, first, last, tmp, http, peer>>

\* The end of ParseJenkinsfile: the grammar is run on the escaped text.
Parse ==
  /\ pc = "parse"
  /\ \E addr \in HeapAddrs :
     \E r \in {ParseString(jf, addr)} :
       /\ pc' = IF r.ok THEN "parsed" ELSE "parse error"
       /\ parsed' = IF r.ok THEN r.model ELSE NilModel
       /\ model' = parsed'
  /\ UNCHANGED <<source, jf, curlyBlocks, blockIdx, scan, renders, first, last, tmp, http, peer>>

\* Model.ToYaml called on the model.
ToYamlOnModel ==
  /\ \E order \in MapOrders(EnvVarKeys([k \in 1..Len(PrStageIndexes(ModelGetStages(model))) |->
                              ModelGetStages(model)[PrStageIndexes(ModelGetStages(model))[k]]])) :
     \E r \in {ToYaml(model, order)} :
       /\ model' = r.model
       /\ last' = [yaml |-> r.yaml, issues |-> r.issues, result |-> r.result,
                   prStages |-> r.prStages, releaseStages |-> r.releaseStages]
       /\ first' = IF renders = 0 THEN last' ELSE first
  /\ renders' = renders + 1
  /\ UNCHANGED <<parsed, source, pc, jf, curlyBlocks, blockIdx, scan>>

\* One call of Model.ToYaml on the model.
Render ==
  /\ pc = "parsed"
  /\ renders < MaxRenders
  /\ ToYamlOnModel
  /\ UNCHANGED <<tmp, http, peer>>

Next == Render

Spec == Init /\ [][Next]_vars

NextConv ==
  \/ ReadAndGetBlocks
  \/ EscapeBlock
  \/ StartScan
  \/ ScanNext
  \/ FinishScan
  \/ Parse
  \/ Render

SpecConv == InitConv /\ [][NextConv]_vars

\* ------------------------------------------------------ the upload handler

\* The files that are uploaded, or lie in a directory at uploadPath: one
\* that converts cleanly, one that converts with issues, one that the
\* grammar rejects.
UploadTexts == {JenkinsfileOf(StepLine(t)) : t \in {ShMakeText, CustomStepText, RetryText}}

\* What can be at uploadPath when a request arrives: nothing, a file an
\* earlier request saved, an empty directory, a directory with a Jenkinsfile.
TmpStates ==
  {NoFile}
  \cup {[kind |-> "file", content |-> JenkinsfileOf(StepLine(ShMakeText)), jenkinsfile |-> <<>>]}
  \cup {[kind |-> "dir", content |-> <<>>, jenkinsfile |-> <<>>]}
  \cup {[kind |-> "dir", content |-> <<>>, jenkinsfile |-> <<t>>] : t \in UploadTexts}

convertIssuesMsg ==
  "ATTENTION: Some contents of the Jenkinsfile could not be converted. Please review the github-action.yml for more information."

\* c.JSON with gin.H{"error": ...} and with gin.H{"message": ..., "result": ...}.
ErrorResponse(status) == [status |-> status, body |-> "error", message |-> "", result |-> <<>>]

ResultResponse(status, message, result) ==
  [status |-> status, body |-> "result", message |-> message, result |-> result]

\* One request to POST /upload, with or without a part named "file".
InitUpload ==
  /\ source = <<>>
  /\ pc = "idle"
  /\ jf = <<>>
  /\ curlyBlocks = <<>>
  /\ blockIdx = 0
  /\ scan = ScanStart
  /\ parsed = NilModel
  /\ model = NilModel
  /\ renders = 0
  /\ first = NoResult
  /\ last = NoResult
  /\ tmp \in TmpStates
  /\ \E hasFile \in BOOLEAN : \E upload \in UploadTexts :
       http = [NoRequest EXCEPT !.pc = "formFile", !.hasFile = hasFile,
                                !.upload = IF hasFile THEN upload ELSE <<>>]
  /\ peer = NoRequest

convVars == <<source, pc, jf, curlyBlocks, blockIdx, scan, parsed, model, renders, first, last>>

\* c.FormFile, uploadPath and the deferred os.Remove: without a file part
\* file is nil and file.Filename is a nil dereference.
FormFile ==
  /\ http.pc = "formFile"
  /\ http' = IF http.hasFile
               THEN [http EXCEPT !.pc = "save"]
               ELSE [http EXCEPT !.pc = "done", !.panicked = TRUE]
  /\ UNCHANGED <<peer, tmp, source, pc, jf, curlyBlocks, blockIdx, scan, parsed, model, renders,
                 first, last>>

\* c.SaveUploadedFile: the file is created or truncated at uploadPath; over
\* a directory it fails and the error is dropped.
SaveUploadedFile ==
  /\ http.pc = "save"
  /\ tmp' = IF tmp.kind = "dir"
              THEN tmp
              ELSE [kind |-> "file", content |-> http.upload, jenkinsfile |-> <<>>]
  /\ http' = [http EXCEPT !.pc = "locate", !.saved = tmp.kind # "dir"]
  /\ UNCHANGED <<peer, convVars>>

\* ParseJenkinsfileInDirectory(uploadPath) up to the call of
\* ParseJenkinsfile: uploadPath has to be a directory with a Jenkinsfile.
ParseJenkinsfileInDirectory ==
  /\ http.pc = "locate"
  /\ IF tmp.kind = "dir" /\ tmp.jenkinsfile # <<>>
       THEN /\ source' = tmp.jenkinsfile[1]
            /\ jf' = source'
            /\ pc' = "read"
            /\ http' = [http EXCEPT !.pc = "parse"]
       ELSE /\ http' = [http EXCEPT !.pc = "parse", !.err = TRUE]
            /\ UNCHANGED <<source, jf, pc>>
  /\ UNCHANGED <<peer, tmp, curlyBlocks, blockIdx, scan, parsed, model, renders, first, last>>

\* ParseJenkinsfile has returned or panicked; the handler's first
\* "if err != nil" answers 400 and does not return.
CheckParseError ==
  /\ http.pc = "parse"
  /\ \/ http.err
     \/ pc \in {"parsed", "parse error", "panic"}
  /\ http' =
       IF pc = "panic"
         THEN [http EXCEPT !.pc = "remove", !.panicked = TRUE]
         ELSE IF http.err \/ pc = "parse error"
           THEN [http EXCEPT !.pc = "toYaml", !.err = TRUE,
                             !.responses = Append(@, ErrorResponse(400))]
           ELSE [http EXCEPT !.pc = "toYaml"]
  /\ UNCHANGED <<peer, tmp, source, pc, jf, curlyBlocks, blockIdx, scan, parsed, model, renders,
                 first, last>>

\* model.ToYaml() after an error: model is nil and getEnvironment
\* dereferences it.
ToYamlOnNilModel ==
  /\ http.pc = "toYaml"
  /\ http.err
  /\ http' = [http EXCEPT !.pc = "remove", !.toYamlOnNil = TRUE, !.panicked = TRUE]
  /\ UNCHANGED <<peer, tmp, source, pc, jf, curlyBlocks, blockIdx, scan, parsed, model, renders,
                 first, last>>

\* model.ToYaml() on the parsed model.
HandlerToYaml ==
  /\ http.pc = "toYaml"
  /\ ~http.err
  /\ ToYamlOnModel
  /\ http' = IF last'.result = "panic"
               THEN [http EXCEPT !.pc = "remove", !.panicked = TRUE]
               ELSE [http EXCEPT !.pc = "answer"]
  /\ UNCHANGED <<tmp, peer>>

\* The end of the handler: ToYaml returned (its error is always nil), the
\* message is set when there were issues, and 200 is answered.
AnswerOK ==
  /\ http.pc = "answer"
  /\ http' = [http EXCEPT !.pc = "remove",
                          !.responses =
                             Append(@, ResultResponse(200,
                                      IF last.issues THEN convertIssuesMsg ELSE "",
                                      last.yaml))]
  /\ UNCHANGED <<peer, tmp, source, pc, jf, curlyBlocks, blockIdx, scan, parsed, model, renders,
                 first, last>>

\* The deferred os.Remove(uploadPath), on return and on panic: a file or an
\* empty directory is removed, a directory with a Jenkinsfile stays.
RemoveUpload ==
  /\ http.pc = "remove"
  /\ tmp' = IF tmp.kind = "dir" /\ tmp.jenkinsfile # <<>> THEN tmp ELSE NoFile
  /\ http' = [http EXCEPT !.pc = "done"]
  /\ UNCHANGED <<peer, convVars>>

NextUpload ==
  \/ FormFile
  \/ SaveUploadedFile
  \/ ParseJenkinsfileInDirectory
  \/ ReadAndGetBlocks
  \/ EscapeBlock
  \/ StartScan
  \/ ScanNext
  \/ FinishScan
  \/ Parse
  \/ CheckParseError
  \/ ToYamlOnNilModel
  \/ HandlerToYaml
  \/ AnswerOK
  \/ RemoveUpload

SpecUpload == InitUpload /\ [][NextUpload]_vars

\* --------------------------------------------- two requests at the same time

\* Two requests to POST /upload whose files carry the same name, so that
\* both handlers work on the same uploadPath; gin runs each handler in a
\* goroutine of its own.  Nothing at uploadPath is a directory that holds a
\* Jenkinsfile, and no step creates one: ParseJenkinsfileInDirectory fails
\* in both handlers, which go on as in SpecUpload after a failed parse.
InitConcurrent ==
  /\ source = <<>>
  /\ pc = "idle"
  /\ jf = <<>>
  /\ curlyBlocks = <<>>
  /\ blockIdx = 0
  /\ scan = ScanStart
  /\ parsed = NilModel
  /\ model = NilModel
  /\ renders = 0
  /\ first = NoResult
  /\ last = NoResult
  /\ tmp \in {t \in TmpStates : t.kind # "dir" \/ t.jenkinsfile = <<>>}
  /\ \E hasFile \in BOOLEAN : \E upload \in UploadTexts :
       http = [NoRequest EXCEPT !.pc = "formFile", !.hasFile = hasFile,
                                !.upload = IF hasFile THEN upload ELSE <<>>]
  /\ \E hasFile \in BOOLEAN : \E upload \in UploadTexts :
       peer = [NoRequest EXCEPT !.pc = "formFile", !.hasFile = hasFile,
                                !.upload = IF hasFile THEN upload ELSE <<>>]

\* The steps of ConvertFile in the second handler.
PeerFormFile ==
  /\ peer.pc = "formFile"
  /\ peer' = IF peer.hasFile
               THEN [peer EXCEPT !.pc = "save"]
               ELSE [peer EXCEPT !.pc = "done", !.panicked = TRUE]
  /\ UNCHANGED <<http, tmp, convVars>>

PeerSaveUploadedFile ==
  /\ peer.pc = "save"
  /\ tmp' = IF tmp.kind = "dir"
              THEN tmp
              ELSE [kind |-> "file", content |-> peer.upload, jenkinsfile |-> <<>>]
  /\ peer' = [peer EXCEPT !.pc = "locate", !.saved = tmp.kind # "dir"]
  /\ UNCHANGED <<http, convVars>>

PeerParseJenkinsfileInDirectory ==
  /\ peer.pc = "locate"
  /\ IF tmp.kind = "dir" /\ tmp.jenkinsfile # <<>>
       THEN /\ source' = tmp.jenkinsfile[1]
            /\ jf' = source'
            /\ pc' = "read"
            /\ peer' = [peer EXCEPT !.pc = "parse"]
       ELSE /\ peer' = [peer EXCEPT !.pc = "parse", !.err = TRUE]
            /\ UNCHANGED <<source, jf, pc>>
  /\ UNCHANGED <<http, tmp, curlyBlocks, blockIdx, scan, parsed, model, renders, first, last>>

PeerCheckParseError ==
  /\ peer.pc = "parse"
  /\ \/ peer.err
     \/ pc \in {"parsed", "parse error", "panic"}
  /\ peer' =
       IF pc = "panic"
         THEN [peer EXCEPT !.pc = "remove", !.panicked = TRUE]
         ELSE IF peer.err \/ pc = "parse error"
           THEN [peer EXCEPT !.pc = "toYaml", !.err = TRUE,
                             !.responses = Append(@, ErrorResponse(400))]
           ELSE [peer EXCEPT !.pc = "toYaml"]
  /\ UNCHANGED <<http, tmp, convVars>>

PeerToYamlOnNilModel ==
  /\ peer.pc = "toYaml"
  /\ peer.err
  /\ peer' = [peer EXCEPT !.pc = "remove", !.toYamlOnNil = TRUE, !.panicked = TRUE]
  /\ UNCHANGED <<http, tmp, convVars>>

PeerRemoveUpload ==
  /\ peer.pc = "remove"
  /\ tmp' = IF tmp.kind = "dir" /\ tmp.jenkinsfile # <<>> THEN tmp ELSE NoFile
  /\ peer' = [peer EXCEPT !.pc = "done"]
  /\ UNCHANGED <<http, convVars>>

NextConcurrent ==
  \/ FormFile
  \/ SaveUploadedFile
  \/ ParseJenkinsfileInDirectory
  \/ CheckParseError
  \/ ToYamlOnNilModel
  \/ RemoveUpload
  \/ PeerFormFile
  \/ PeerSaveUploadedFile
  \/ PeerParseJenkinsfileInDirectory
  \/ PeerCheckParseError
  \/ PeerToYamlOnNilModel
  \/ PeerRemoveUpload

SpecConcurrent == InitConcurrent /\ [][NextConcurrent]_vars

\* ------------------------------------------------- reading the rendered YAML

\* The lines of a rendered document.
Lines(y) == Split(y, <<"\n">>)

HasLine(y, line) == LET ls == Lines(y) IN \E i \in 1..Len(ls) : ls[i] = line

\* A job header: one indent, a name, a colon (below the "jobs:" line).
IsJobHeader(l) ==
  Len(l) >= 3 /\ l[1] = "  " /\ l[2] \notin {"  ", "#"} /\ l[Len(l)] = ":"

\* The indexes of the job headers among the lines ls, in order.
JobStarts(ls) ==
  LET jobsAt == IndexFrom(ls, << <<"jobs:">> >>, 1)
  IN SelectSeq([i \in 1..Len(ls) |-> i],
               LAMBDA i : jobsAt # 0 /\ i > jobsAt /\ IsJobHeader(ls[i]))

\* The names of the jobs of a document, in order.
JobNames(y) ==
  LET ls == Lines(y)
      st == JobStarts(ls)
  IN [k \in 1..Len(st) |-> SubSeq(ls[st[k]], 2, Len(ls[st[k]]) - 1)]

\* A step-entry header "- name: step<n>".
IsStepHeader(l) == Len(l) >= 4 /\ SubSeq(l, 1, 4) = <<"  ", "  ", "  ", "- name: step">>

\* The lines of job k: from its header up to the next job header (or the
\* end); st are the job headers' indexes.
JobBlock(ls, st, k) ==
  SubSeq(ls, st[k], IF k < Len(st) THEN st[k + 1] - 1 ELSE Len(ls))

Rendered == last.result = "ok"

\* The stages of the parsed model.
ParsedStages == ModelGetStages(parsed)

\* The elements of a sequence.
StageRange(seq) == {seq[i] : i \in 1..Len(seq)}

\* --------------------------------------------------------------- claims

\* A step tree of supported steps only: sh or echo with one unnamed string
\* argument, or dir around such steps.
RECURSIVE SupportedStep(_)
SupportedStep(st) ==
  IF Len(st.NestedSteps) = 0
  THEN /\ st.Name \in {<<"sh">>, <<"echo">>}
       /\ Len(st.Args) = 1
       /\ st.Args[1].Unnamed # <<>>
       /\ st.Args[1].Unnamed[1].String # <<>>
  ELSE /\ st.Name = <<"dir">>
       /\ \A i \in 1..Len(st.NestedSteps) : SupportedStep(st.NestedSteps[i])

SupportedStage(s) ==
  \A i \in 1..Len(s.Entries) :
    LET e == s.Entries[i]
    IN /\ e.Post = <<>> /\ e.Unsupported = <<>> /\ e.Environment = <<>>
       /\ e.When # <<>> => e.When[1].Unsupported = <<>>
       /\ \A j \in 1..Len(e.Steps) : SupportedStep(e.Steps[j])

OnlySupported(m) ==
  \A i \in 1..Len(m.Pipeline) :
    LET e == m.Pipeline[i]
    IN /\ e.Post = <<>> /\ e.Unsupported = <<>>
       /\ \A j \in 1..Len(e.Environment) :
            /\ e.Environment[j].Value.StringValue # <<>>
            /\ ~Contains(e.Environment[j].Value.StringValue[1], <<"$">>)
       /\ \A j \in 1..Len(e.Stages) : SupportedStage(e.Stages[j])

\* C1: a model of supported constructs only renders with hasIssues = false
\* and exactly one job per stage, in stage order (stated for the models
\* with at least one stage whose stages each keep at least one step).
C1_SupportedModelOneJobPerStage ==
  (/\ Rendered
   /\ OnlySupported(parsed)
   /\ Len(ParsedStages) > 0
   /\ \A i \in 1..Len(ParsedStages) : stepsToInclude(ParsedStages[i]) # <<>>) =>
    /\ ~last.issues
    /\ JobNames(last.yaml) =
         [i \in 1..Len(ParsedStages) |-> NormalizedName(ParsedStages[i].Name)]

\* The names of the unsupported top-level directives of the parsed model.
TopLevelUnsupported ==
  UNION {{parsed.Pipeline[i].Unsupported[j].Name : j \in 1..Len(parsed.Pipeline[i].Unsupported)} :
           i \in 1..Len(parsed.Pipeline)}

\* C2: every unsupported top-level directive D sets hasIssues and is named
\* in a comment line, whatever stands before or after it.
C2_EveryUnsupportedDirectiveNamed ==
  Rendered =>
    \A d \in TopLevelUnsupported :
      /\ last.issues
      /\ HasLine(last.yaml,
                 <<"  ", "#", " The Jenkinsfile contains the ">> \o d
                 \o <<" directive for its pipeline. This is not converted.">>)

\* C3: rendering the same model again yields the same YAML and the same
\* hasIssues.
C3_RenderTwiceSameOutput ==
  (renders >= 2 /\ first.result = "ok" /\ last.result = "ok") =>
    (first.yaml = last.yaml /\ first.issues = last.issues)

\* C4: a stage guarded by a PR- branch is only in the pull-request group, one
\* guarded by master only in the release group, one without when in both,
\* and each group a stage is in is emitted: the YAML holds a job for the
\* stage.
C4_StagePartitionEmitted ==
  Rendered =>
    \A i \in 1..Len(ParsedStages) :
      LET when == StageGetWhen(ParsedStages[i])
          inPr == i \in StageRange(last.prStages)
          inRelease == i \in StageRange(last.releaseStages)
      IN /\ when = <<>> => (inPr /\ inRelease)
         /\ (when # <<>> /\ when[1].Branch = <<"master">>) => (inRelease /\ ~inPr)
         /\ (when # <<>> /\ HasPrefix(when[1].Branch, <<"P", "R", "-">>)) => (inPr /\ ~inRelease)
         /\ (inPr \/ inRelease) =>
              HasLine(last.yaml, <<"  ">> \o NormalizedName(ParsedStages[i].Name) \o <<":">>)

\* A flattened step the translation has no run line for: not sh or echo,
\* or sh/echo without exactly one unnamed argument.
InvalidStep(st) ==
  \/ st.Name \notin {<<"sh">>, <<"echo">>}
  \/ Len(st.Args) # 1
  \/ st.Args[1].Unnamed = <<>>

\* The stage the latest call rendered as job k, and its flattened steps.
JobStage(k) == ParsedStages[last.prStages[k]]
JobSteps(k) == stepsToInclude(JobStage(k))

\* The indexes, within a job's block b, of its step-entry headers.
StepHeaders(b) == SelectSeq([i \in 1..Len(b) |-> i], LAMBDA i : IsStepHeader(b[i]))

FourIndents == <<"  ", "  ", "  ", "  ">>

\* Lines h.. of block b are exactly one entry for the untranslatable step
\* st, numbered j: header, the cannot-be-translated comment, a second
\* comment, the original call as n >= 1 comment lines that start with the
\* step's name, the forced failure, and nothing more of the entry.
InvalidStepEntryAt(b, h, j, st) ==
  /\ b[h] = <<"  ", "  ", "  ", "- name: step">> \o Digits(j)
  /\ h + 5 <= Len(b)
  /\ b[h + 1] = FourIndents \o <<"#", " The Jenkins Pipeline step ">> \o st.Name
                \o <<" cannot be translated directly.">>
  /\ HasPrefix(b[h + 2], FourIndents \o <<"#">>)
  /\ b[h + 3] = FourIndents \o <<"#", " Original step from Jenkinsfile:">>
  /\ HasPrefix(b[h + 4], FourIndents \o <<"#", " ">> \o st.Name)
  /\ \E n \in 1..(Len(b) - h - 4) :
       /\ \A q \in 1..n : HasPrefix(b[h + 3 + q], FourIndents \o <<"#", " ">>)
       /\ b[h + 4 + n] = FourIndents \o <<"run: echo 'Invalid step ">> \o st.Name
                         \o <<", failing' && exit 1">>
       /\ h + 4 + n < Len(b) => ~HasPrefix(b[h + 5 + n], FourIndents)

\* C5: every flattened step that is not sh/echo, or is sh/echo without
\* exactly one unnamed argument, is rendered as exactly one step entry
\* (comment, original call, forced failure); no step of a rendered stage is
\* left out, the call returns normally and hasIssues is true.
C5_InvalidStepFailsLoudly ==
  Rendered =>
    LET ls == Lines(last.yaml)
        st == JobStarts(ls)
    IN /\ Len(st) = Len(last.prStages)
       /\ \A k \in 1..Len(last.prStages) :
            LET b == JobBlock(ls, st, k)
                hs == StepHeaders(b)
                steps == JobSteps(k)
            IN /\ Len(hs) = Len(steps)
               /\ \A j \in 1..Len(steps) :
                    InvalidStep(steps[j].step) =>
                      (InvalidStepEntryAt(b, hs[j], j, steps[j].step) /\ last.issues)

\* C5's case: a rendered stage holds an sh without arguments, an sh with a
\* named argument, an echo with two arguments and a step that is not sh.
C5_Witness ==
  /\ Rendered
  /\ \E k \in 1..Len(last.prStages) :
       LET st == [j \in 1..Len(JobSteps(k)) |-> JobSteps(k)[j].step]
       IN /\ \E j \in 1..Len(st) : st[j].Name = <<"sh">> /\ Len(st[j].Args) = 0
          /\ \E j \in 1..Len(st) : st[j].Name = <<"sh">> /\ Len(st[j].Args) = 1
                                   /\ st[j].Args[1].Unnamed = <<>>
          /\ \E j \in 1..Len(st) : st[j].Name = <<"echo">> /\ Len(st[j].Args) = 2
          /\ \E j \in 1..Len(st) : st[j].Name \notin {<<"sh">>, <<"echo">>}

\* The text a value had in the Jenkinsfile: a string between quotes, a
\* number as written, true, or (nothing captured) false.
SourceLiteral(v) ==
  IF v.String # <<>> THEN <<"\"">> \o v.String[1] \o <<"\"">>
  ELSE IF v.Number # <<>> THEN v.Number[1].val
  ELSE IF v.Int # <<>> THEN v.Int[1].val
  ELSE IF v.Bool # <<>> THEN <<"true">>
  ELSE <<"false">>

\* C6: the comment block of an untranslatable step with one named argument
\* reproduces the call with the argument's literal value, as in
\* customStep(foo: 1), followed by the forced-failure line.
C6_OriginalCallReproduced ==
  Rendered =>
    LET ls == Lines(last.yaml) IN
    \A k \in 1..Len(last.prStages) :
      \A j \in 1..Len(JobSteps(k)) :
        LET st == JobSteps(k)[j].step
        IN (st.Name \notin {<<"sh">>, <<"echo">>} /\ Len(st.Args) = 1 /\ st.Args[1].Named # <<>>) =>
             \E i \in 1..(Len(ls) - 1) :
               /\ ls[i] =
                    FourIndents \o <<"#", " ">> \o st.Name \o <<"(">> \o st.Args[1].Named[1].Key
                    \o <<": ">> \o SourceLiteral(st.Args[1].Named[1].Value[1]) \o <<")">>
               /\ ls[i + 1] =
                    FourIndents \o <<"run: echo 'Invalid step ">> \o st.Name
                    \o <<", failing' && exit 1">>

\* The conversion of a file has ended without a model: GetBlocks ran out of
\* range, or the lexer or the grammar rejected the escaped text.
ConversionFailed == pc \in {"panic", "parse error"}

\* The lines of the rendered YAML without their indentation.
TrimmedLines == LET ls == Lines(last.yaml) IN [i \in 1..Len(ls) |-> TrimLeft(ls[i], {"  "})]

\* The steps of the file hold dir('backend') { container('node') { sh 'echo hi' } }.
HasDirContainer == Contains(source, DirContainerText)

\* C7: a file whose steps hold dir('backend') { container('node') { sh 'echo
\* hi' } } next to sibling sh steps is converted (pre-processed, parsed and
\* rendered) without failure, and the working directory ./backend and the
\* image node are attached to the nested step and to no other.
C7_NestedStepKeepsDirAndImage ==
  HasDirContainer =>
    /\ ~ConversionFailed
    /\ Rendered =>
         LET ls == TrimmedLines
             At1(line) == {i \in 1..Len(ls) : ls[i] = line}
         IN \E i \in At1(<<"run: ", "echo", " ", "hi">>) :
              /\ {i + 1, i + 2} \subseteq
                   At1(<<"image: ", "node">>) \cup At1(<<"working-directory: ./", "backend">>)
              /\ Cardinality(At1(<<"image: ", "node">>)) = 1
              /\ Cardinality(At1(<<"working-directory: ./", "backend">>)) = 1
              /\ \A j \in 1..Len(ls) :
                   (HasPrefix(ls[j], <<"image: ">>) \/ HasPrefix(ls[j], <<"working-directory: ./">>))
                     => j \in {i + 1, i + 2}

\* The steps of the file hold an sh whose single-quoted argument has double
\* quotes and a line break in it: sh 'echo "hi"<line break>done'.
HasTwoLineArg == Contains(source, ShTwoLinesText)

\* The placeholder tokens of the pre-processing.
Placeholders ==
  {newlinePlaceholder[1], backtickPlaceholder[1], doubleQuotePlaceholder[1],
   singleQuotePlaceholder[1], multilineDoubleQuotePlaceholder[1],
   multilineSingleQuotePlaceholder[1]}

\* C8: a single-quoted sh argument with double quotes and a line break in
\* it is accepted by the pre-processing and the grammar, and is rendered as
\* a block scalar that reproduces the quotes and the line break; no
\* placeholder token is left in the output.
C8_QuotedLineBreakRendered ==
  HasTwoLineArg =>
    /\ ~ConversionFailed
    /\ Rendered =>
         LET ls == TrimmedLines
         IN /\ \E i \in 1..(Len(ls) - 2) :
                 /\ ls[i] = <<"run: ", "|">>
                 /\ ls[i + 1] = <<"echo", " ", "\"", "hi", "\"">>
                 /\ ls[i + 2] = <<"done">>
            /\ \A i \in 1..Len(last.yaml) : last.yaml[i] \notin Placeholders

\* C9: a stage whose when holds an unsupported condition is in no job group,
\* a comment names the stage and the condition, and hasIssues is true.
C9_DroppedStageRaisesIssue ==
  Rendered =>
    \A i \in 1..Len(ParsedStages) :
      LET when == StageGetWhen(ParsedStages[i])
      IN (when # <<>> /\ Len(when[1].Unsupported) > 0) =>
           /\ i \notin StageRange(last.prStages)
           /\ i \notin StageRange(last.releaseStages)
           /\ HasLine(last.yaml,
                <<"  ", "  ", "#", " This Jenkinsfile contains the unsupported when condition '">>
                \o when[1].Unsupported[1].Name \o <<"' on stage '">> \o ParsedStages[i].Name
                \o <<"'. The stage containing it will not be converted.">>)
           /\ last.issues

\* The environment entries a call renders: those of the pipeline and those
\* of the stages in the pull-request group, without the removal list.
RenderedEnvEntries ==
  {e \in StageRange(ModelGetEnvironment(parsed))
         \cup UNION {StageRange(StageGetEnvironment(ParsedStages[i])) :
                       i \in StageRange(last.prStages)} :
     e.Key \notin unusedEnvVars}

\* C10: an environment entry whose literal value contains $ is rendered as
\* a cannot-be-converted comment, not as a key/value line, and hasIssues is
\* true.
C10_InterpolatedEnvRaisesIssue ==
  Rendered =>
    LET ls == Lines(last.yaml) IN
    \A e \in RenderedEnvEntries :
      (e.Value.StringValue # <<>> /\ Contains(e.Value.StringValue[1], <<"$">>)) =>
        /\ \E i \in 1..Len(ls) :
             TrimLeft(ls[i], {"  "}) =
               <<"#", " The variable '">> \o e.Key \o <<"' has the value '">>
               \o e.Value.StringValue[1] \o <<"', which cannot be converted.">>
        /\ \A i \in 1..Len(ls) : ~Contains(ls[i], e.Key \o <<":", " ">>)
        /\ last.issues

\* The rendered environment entries whose value is credentials(...).
CredentialEntries == {e \in RenderedEnvEntries : e.Value.Credential # <<>>}

\* C11: a call of ToYaml on a model with a credentials(...) environment
\* entry returns normally, and the entry is rendered as a key/value line or
\* as a cannot-be-converted comment.
C11_CredentialEntryRendered ==
  (last.result # "none" /\ CredentialEntries # {}) =>
    /\ Rendered
    /\ LET ls == Lines(last.yaml) IN
       \A e \in CredentialEntries :
         \E i \in 1..Len(ls) :
           \/ Contains(ls[i], e.Key \o <<":", " ">>)
           \/ Contains(ls[i], <<"#", " The variable '">> \o e.Key)

\* The name a job is emitted under: the stage's name with _ for each space.
EmittedName(i) == ReplaceAll(ParsedStages[i].Name, <<" ">>, <<"_">>)

\* The lines of a job block that are an if line, and those that are a needs
\* line, without their indentation.
IfLines(b) ==
  SelectSeq([i \in 1..Len(b) |-> TrimLeft(b[i], {"  "})],
            LAMBDA l : l # <<>> /\ l[1] = "if: ${{ always() }}")

NeedsLines(b) ==
  SelectSeq([i \in 1..Len(b) |-> TrimLeft(b[i], {"  "})],
            LAMBDA l : l # <<>> /\ l[1] = "needs: [")

\* C12: the jobs of a rendered document are the stages of the rendered
\* group in their order; the first job has no if and no needs line, and job
\* k > 1 has the line if: ${{ always() }} and one needs line that lists the
\* emitted names of jobs 1..k-1 in order.
C12_JobChainNeedsAllEarlier ==
  Rendered =>
    LET ls == Lines(last.yaml)
        st == JobStarts(ls)
        n == Len(last.prStages)
    IN /\ Len(st) = n
       /\ \A k \in 1..n :
            LET b == JobBlock(ls, st, k)
            IN /\ b[1] = <<"  ">> \o EmittedName(last.prStages[k]) \o <<":">>
               /\ IF k = 1
                  THEN IfLines(b) = <<>> /\ NeedsLines(b) = <<>>
                  ELSE /\ IfLines(b) = << <<"if: ${{ always() }}">> >>
                       /\ NeedsLines(b) =
                            << <<"needs: [">>
                               \o Join([j \in 1..(k - 1) |-> EmittedName(last.prStages[j])],
                                       <<", ">>)
                               \o <<"]">> >>

\* A document of three jobs, one of a stage whose name holds a space.
C12_Witness ==
  /\ Rendered
  /\ Len(last.prStages) >= 3
  /\ Len(JobStarts(Lines(last.yaml))) >= 3
  /\ \E k \in 1..2 : Contains(ParsedStages[last.prStages[k]].Name, <<" ">>)

\* The rendered job group has no step: every stage of the group has all its
\* flattened steps removed by the step filter (or the group has no stage).
GroupHasNoSteps ==
  \A k \in 1..Len(last.prStages) : stepsToInclude(ParsedStages[last.prStages[k]]) = <<>>

\* C13: a rendered job group without any step gets the always-fail
\* placeholder step, and hasIssues is true.
C13_EmptyGroupGetsPlaceholder ==
  (Rendered /\ GroupHasNoSteps) =>
    LET ls == Lines(last.yaml)
    IN /\ \E i \in 1..(Len(ls) - 2) :
            /\ ls[i] = <<"  ", "#", " No stages were found that will be run.">>
            /\ ls[i + 1] = <<"  ", "- name: step0">>
            /\ ls[i + 2] = <<"  ", "  ", "runs: echo 'No stages found, failing' && exit 1">>
       /\ \A i \in 1..Len(ls) : ~IsStepHeader(ls[i])
       /\ last.issues

\* A rendered group of one stage whose only step the filter removes.
C13_Witness ==
  /\ Rendered
  /\ GroupHasNoSteps
  /\ Len(last.prStages) = 1
  /\ StageGetSteps(ParsedStages[last.prStages[1]]) # <<>>

\* ------------------------------------------------------------------ C14
\* C14: when locating and parsing the uploaded Jenkinsfile fails, the
\* handler is finished with that: it has written exactly one response, 400
\* with an error body, it has not called ToYaml on the missing model, and it
\* has written no 200.
C14_ParseFailureIsTerminal ==
  (http.pc = "done" /\ http.err) =>
    /\ http.responses = <<ErrorResponse(400)>>
    /\ ~http.toYamlOnNil
    /\ ~http.panicked

\* ------------------------------------------------------------------ C15
\* The uploaded files the grammar accepts.
ParsableUploadTexts == {JenkinsfileOf(StepLine(t)) : t \in {ShMakeText, CustomStepText}}

\* C15: when the uploaded file is a parsable pipeline, the handler answers
\* once, with 200: the file parsed is the uploaded one, the result is what
\* ToYaml returned for it, and the message is empty exactly when ToYaml
\* reported no issues.
C15_ParsableUploadAnswered200 ==
  (http.pc = "done" /\ http.upload \in ParsableUploadTexts) =>
    /\ Len(http.responses) = 1
    /\ http.responses[1].status = 200
    /\ http.responses[1].body = "result"
    /\ source = http.upload
    /\ last.result = "ok"
    /\ http.responses[1].result = last.yaml
    /\ (http.responses[1].message = "") <=> ~last.issues

\* ------------------------------------------------------------------ C16
\* The blocks of a list and, below each, the blocks of its Nested list.
RECURSIVE AllBlocks(_)
AllBlocks(blocks) ==
  IF blocks = <<>> THEN <<>>
  ELSE <<Head(blocks)>> \o AllBlocks(Head(blocks).Nested) \o AllBlocks(Tail(blocks))

\* Opening less closing braces of s[i..j].
BraceDepth(s, i, j) ==
  Cardinality({k \in i..j : s[k] = "{"}) - Cardinality({k \in i..j : s[k] = "}"})

\* text starts with the word name, and from its first opening brace on the
\* braces balance at its last character and nowhere before.
RunsToBalancingBrace(name, text) ==
  LET opens == {k \in 1..Len(text) : text[k] = "{"}
      Balanced(open) ==
        /\ text[Len(text)] = "}"
        /\ BraceDepth(text, open, Len(text)) = 0
        /\ \A q \in open..(Len(text) - 1) : BraceDepth(text, open, q) > 0
  IN /\ HasPrefix(text, name)
     /\ opens # {}
     /\ Balanced(CHOOSE k \in opens : \A m \in opens : k <= m)

\* C16: every block GetBlocks returned, at any depth, has as original text a
\* piece of the text read that starts at the block's header and ends at the
\* closing brace that balances the header's opening brace, nested pairs of
\* braces counted.
C16_BlockRunsToBalancingBrace ==
  pc \in {"escape", "scan", "parse", "parsed", "parse error"} =>
    LET all == AllBlocks(curlyBlocks)
    IN \A k \in 1..Len(all) :
         /\ Contains(ReplaceOnRead(source), all[k].OriginalText)
         /\ RunsToBalancingBrace(all[k].Name, all[k].OriginalText)

\* GetBlocks has returned a block with a block nested two levels below it.
C16_Witness ==
  /\ pc = "escape"
  /\ \E k \in 1..Len(curlyBlocks) :
       \E n \in 1..Len(curlyBlocks[k].Nested) :
         /\ curlyBlocks[k].Name = <<"steps">>
         /\ curlyBlocks[k].Nested[n].Nested # <<>>
         /\ BraceDepth(curlyBlocks[k].OriginalText, 1, Len(curlyBlocks[k].OriginalText) - 1) = 1

\* ------------------------------------------------------------------ C17
\* The text read has an opening brace that no closing brace balances.
HasUnterminatedBlock ==
  source # <<>> /\ BraceDepth(ReplaceOnRead(source), 1, Len(ReplaceOnRead(source))) > 0

\* C17: on a text with an unterminated block GetBlocks returns normally
\* (no runtime failure), and it still reports blocks.
C17_UnterminatedBlockIsSkipped ==
  (HasUnterminatedBlock /\ pc # "read") =>
    /\ pc # "panic"
    /\ curlyBlocks # <<>>

\* ------------------------------------------------------------------ C18
\* b is one of the blocks of the list, at any depth.
IsAmong(b, blocks) == \E k \in 1..Len(AllBlocks(blocks)) : AllBlocks(blocks)[k] = b

\* C18: when ParseJenkinsfile's loop over the blocks is through, a block that
\* lies inside a supported child of a steps block (a block inside a dir
\* inside steps) and whose own name is not a supported step has not been
\* escaped on account of the steps context: its original text is still in
\* the working text.
C18_DeeperDescendantNotEscaped ==
  (pc = "escape" /\ blockIdx > Len(curlyBlocks)) =>
    \A k \in 1..Len(curlyBlocks) :
      curlyBlocks[k].Name = <<"steps">> =>
        \A m, n \in 1..Len(curlyBlocks[k].Nested) :
          LET child == curlyBlocks[k].Nested[m]
              deeper == curlyBlocks[k].Nested[n]
          IN (/\ isSupportedField(child.Name, supportedSteps, FALSE)
              /\ IsAmong(deeper, child.Nested)
              /\ ~isSupportedField(deeper.Name, supportedSteps, FALSE))
             => Contains(jf, deeper.OriginalText)

\* ------------------------------------------------------------------ C19
\* How many of the scanner's four modes are on.
ActiveModes(sc) ==
  Cardinality({m \in {"inSingleLineComment", "inMultilineComment", "inDoubleQuote",
                      "inEscapeQuote"} : sc[m]})

\* C19: at every position of the character scan at most one of the modes
\* single-line comment, multiline comment, double-quoted string and
\* single-quote capture is on.
C19_ScannerModesExclusive == pc = "scan" => ActiveModes(scan) <= 1

\* ------------------------------------------------------------------ C20
\* The leaves of a step tree from left to right, each with the steps that
\* enclose it, outermost first.
RECURSIVE LeafPaths(_, _)
LeafPaths(step, enclosing) ==
  IF step.NestedSteps = <<>> THEN << [step |-> step, path |-> enclosing] >>
  ELSE Flatten([i \in 1..Len(step.NestedSteps) |->
                  LeafPaths(step.NestedSteps[i], Append(enclosing, step))])

\* The innermost step of the path with the name, as a sequence of 0 or 1.
Nearest(path, name) ==
  LET at == {i \in 1..Len(path) : path[i].Name = <<name>>}
  IN IF at = {} THEN <<>> ELSE <<path[CHOOSE i \in at : \A j \in at : i >= j]>>

\* What the flattening of a stage has to be: its leaves in order, each with
\* the directory of the nearest enclosing dir and the image of the nearest
\* enclosing container.
LeavesWithDirAndImage(stage) ==
  LET steps == StageGetSteps(stage)
      leaves == Flatten([i \in 1..Len(steps) |-> LeafPaths(steps[i], <<>>)])
      DirOf(path) ==
        IF Nearest(path, "dir") = <<>> THEN <<>>
        ELSE Trim(getArg(Nearest(path, "dir")[1]), {".", "/"})
      ImageOf(path) ==
        IF Nearest(path, "container") = <<>> THEN StageDefaultImage(stage)
        ELSE imageFromContainerStep(Nearest(path, "container")[1])
  IN [k \in 1..Len(leaves) |->
        [step |-> leaves[k].step, dir |-> DirOf(leaves[k].path),
         image |-> ImageOf(leaves[k].path)]]

\* C20: for every stage of the model, the flattening toImageAndSteps works
\* on is exactly the stage's leaf steps, depth-first from left to right,
\* each with the directory of its nearest enclosing dir (none: empty) and
\* the image of its nearest enclosing container (none: the stage default).
C20_FlatteningKeepsNearestDirAndImage ==
  \A k \in 1..Len(ModelGetStages(model)) :
    baseSteps(ModelGetStages(model)[k]) = LeavesWithDirAndImage(ModelGetStages(model)[k])

\* A stage with a leaf inside a container inside a dir inside another dir
\* has been rendered.
C20_Witness ==
  /\ Rendered
  /\ \E k \in 1..Len(ModelGetStages(model)) :
       \E j \in 1..Len(baseSteps(ModelGetStages(model)[k])) :
         LET s == baseSteps(ModelGetStages(model)[k])[j]
         IN s.dir = <<"app">> /\ s.image = <<"node">>

\* ------------------------------------------------------------------ C21
\* The argument less a leading "./".
WithoutLeadingDotSlash(arg) ==
  IF HasPrefix(arg, <<".", "/">>) THEN SubSeq(arg, 3, Len(arg)) ELSE arg

\* The leaves of a stage that are sh or echo steps with one unnamed argument
\* and lie in a dir step, each with the argument of the nearest such step.
LeavesInDir(stage) ==
  LET steps == StageGetSteps(stage)
      leaves == Flatten([i \in 1..Len(steps) |-> LeafPaths(steps[i], <<>>)])
      at == {k \in 1..Len(leaves) :
               /\ Nearest(leaves[k].path, "dir") # <<>>
               /\ leaves[k].step.Name \in {<<"sh">>, <<"echo">>}
               /\ Len(leaves[k].step.Args) = 1
               /\ leaves[k].step.Args[1].Unnamed # <<>>}
  IN {[k |-> k, arg |-> getArg(Nearest(leaves[k].path, "dir")[1])] : k \in at}

\* C21: for every rendered step inside a dir step, the directory is the dir
\* step's argument with only a leading "./" removed (an argument without
\* one is kept as it is), and the document has the line
\* working-directory: ./<that value>.
C21_DirValueLosesOnlyLeadingDotSlash ==
  Rendered =>
    \A i \in StageRange(last.prStages) :
      \A l \in LeavesInDir(ParsedStages[i]) :
        /\ baseSteps(ParsedStages[i])[l.k].dir = WithoutLeadingDotSlash(l.arg)
        /\ \E j \in 1..Len(TrimmedLines) :
             TrimmedLines[j] = <<"working-directory: ./">> \o WithoutLeadingDotSlash(l.arg)

\* ------------------------------------------------------------------ C22
\* C22: every stage of the parsed model shows in the rendered document,
\* as a job of its (normalized) name or in a comment line that names it;
\* stages under  when { branch ... }  included, whatever the branch.
C22_NoStageOmittedSilently ==
  Rendered =>
    \A i \in 1..Len(ParsedStages) :
      \/ \E k \in 1..Len(JobNames(last.yaml)) : JobNames(last.yaml)[k] = EmittedName(i)
      \/ \E j \in 1..Len(TrimmedLines) :
           /\ TrimmedLines[j] # <<>>
           /\ TrimmedLines[j][1] = "#"
           /\ Contains(TrimmedLines[j], ParsedStages[i].Name)

\* ------------------------------------------------------------------ C23
\* The arguments of the rendered sh steps that have exactly one unnamed
\* string argument without a placeholder, a line break or the VERSION idiom.
PlainShArguments ==
  UNION {{stepsToInclude(ParsedStages[i])[k].step.Args[1].Unnamed[1].String[1] :
            k \in {k \in 1..Len(stepsToInclude(ParsedStages[i])) :
                     LET st == stepsToInclude(ParsedStages[i])[k].step
                     IN /\ st.Name = <<"sh">>
                        /\ Len(st.Args) = 1
                        /\ st.Args[1].Unnamed # <<>>
                        /\ st.Args[1].Unnamed[1].String # <<>>
                        /\ \A g \in StageRange(st.Args[1].Unnamed[1].String[1]) :
                             g \notin Placeholders \cup {"VERSION", "\n", BackTick}}} :
         i \in StageRange(last.prStages)}

\* C23: for every such sh step the document has the line  run: <argument>,
\* the argument character for character, also when it begins or ends with
\* a double quote.
C23_ShArgumentReproduced ==
  Rendered =>
    \A arg \in PlainShArguments :
      \E j \in 1..Len(TrimmedLines) : TrimmedLines[j] = <<"run: ">> \o arg

\* ------------------------------------------------------------------ C24
\* C24: the job names of one rendered document are pairwise distinct.
C24_JobNamesDistinct ==
  Rendered =>
    \A j, k \in 1..Len(JobNames(last.yaml)) :
      j # k => JobNames(last.yaml)[j] # JobNames(last.yaml)[k]

\* ------------------------------------------------------------------ C25
\* The braces of the text balance: as many close as open, and no closing
\* brace comes before its opening one.
IsBraceBalanced(text) ==
  /\ BraceDepth(text, 1, Len(text)) = 0
  /\ \A k \in 1..Len(text) : BraceDepth(text, 1, k) >= 0

\* C25: on a brace-balanced text GetBlocks returns normally, and a block
\* with an empty body (the closing brace right behind the opening one) is
\* among the blocks it returns, with no nested blocks.
C25_BalancedTextNeverFails ==
  (source # <<>> /\ IsBraceBalanced(ReplaceOnRead(source)) /\ pc # "read") =>
    /\ pc # "panic"
    /\ \A k \in 1..Len(AllBlocks(curlyBlocks)) :
         LET b == AllBlocks(curlyBlocks)[k]
         IN (Len(b.OriginalText) >= 2
             /\ SubSeq(b.OriginalText, Len(b.OriginalText) - 1, Len(b.OriginalText)) = <<"{", "}">>)
            => b.Nested = <<>>

\* ------------------------------------------------------------------ C26
\* The handler has saved its upload and has not yet looked for it.
SavedNotYetRead(h) == h.pc = "locate" /\ h.saved

\* C26: while a handler has saved its upload and not yet read it, the file
\* at uploadPath is there and holds what that handler saved: the other
\* handler has neither removed nor replaced it.
C26_SavedFileIsKeptForItsRequest ==
  /\ SavedNotYetRead(http) => (tmp.kind = "file" /\ tmp.content = http.upload)
  /\ SavedNotYetRead(peer) => (tmp.kind = "file" /\ tmp.content = peer.upload)

====
